---------------------------- MODULE Spec2Model ----------------------------
(***************************************************************************)
(* Model of the IDML editor: the extracted document tree on disk, the      *)
(* save-transform and save-story request handlers that rewrite one XML     *)
(* file of it, the IDML packer that zips the tree, the canvas element      *)
(* factory / group handler with their id generator, the story plain-text   *)
(* round trip, the spread's round trip over the canvas, the geometry       *)
(* codec, editing with its auto-save timers, locking, the colour           *)
(* conversion, the spread index, created elements, the save handlers'      *)
(* object search and file paths, the editor store and the spread cache.    *)
(***************************************************************************)
EXTENDS Integers, Sequences, FiniteSets, TLC

VARIABLES
    \* ---- the extracted tree and the request handlers working on it
    files,      \* file path -> content (NoFile when the path does not exist)
    dirs,       \* the directories that exist under extracted/
    pc,         \* request handler -> the await it is suspended at
    req,        \* request handler -> the request body it is serving
    target,     \* request handler -> the file path it resolved
    buf,        \* request handler -> the XML it built in memory
    resp,       \* request handler -> HTTP status of its response
    nreq,       \* number of requests received so far
    obs,        \* what the latest concurrent reader got from readFile
    \* ---- packIDML
    zpc,        \* position of the export request
    zreq,       \* which packer runs, and packIDMLWithSpread's arguments
    zip,        \* the JSZip object: its entries in insertion order
    stack,      \* addDirectoryToZip: the pending readdir loops
    zout,       \* the generated archive
    \* ---- the canvas
    canvas,     \* canvas.getObjects(): the top-level objects, in order
    created,    \* number of objects created by the factory / group handler
    \* ---- generateUniqueID against a caller-kept set
    idSet,      \* the id set
    lastId,     \* the id returned last
    genCount,   \* number of ids generated
    \* ---- story text round trip
    story,      \* the parsed story
    newText,    \* the text handed to updateStoryFromText
    withStyles, \* whether its styles argument was given
    updated,    \* updateStoryFromText's result
    stpc,       \* "parsed" or "updated"
    \* ---- a spread's way from its XML over the canvas back to XML
    doc,        \* the page items of the source spread, in document order
    rcanvas,    \* the canvas loadSpread filled
    elements,   \* canvasToIDMLElements' result
    outSpread,  \* serializeSpreadToXML's Spread object, per element type
    rtpc,       \* "source", "loaded", "converted" or "serialized"
    \* ---- the transform and bounds codec
    gin,        \* the attribute value handed to the parser
    gtr,        \* parseItemTransform's result
    gbox,       \* parseGeometricBounds' result
    gout,       \* composeItemTransform's result, its six numbers
    gpc,        \* "input", "parsed", "threw" or "composed"
    \* ---- editing on the canvas and the two auto-save timers
    eobjs,      \* canvas object -> its geometry, text and data
    textTimer,  \* saveTimeout of the text auto-save effect
    transTimer, \* saveTimeout of the transform auto-save effect
    sent,       \* the requests submitted with fetcher.submit, in order
    lastEdit,   \* canvas object -> seconds since its last edit (-1: none)
    hist,       \* canvas object -> its transform at load or last reset, and
                \* the number of modifications since
    burst,      \* whether all edits so far form one burst, and on which object
    nedits      \* number of editor operations so far

\* -- further parts: variables
VARIABLES
    \* ---- locking objects and layers
    lk,         \* canvas object -> where it is, its data.locked and layer, its fabric flags
    \* ---- CMYK to RGB
    cmyk,       \* the four components handed to cmykToRgb
    rgb,        \* cmykToRgb's result
    hexOut,     \* rgbToHex's result, as six hexadecimal digits
    cpc,        \* "input", "rgb" or "hex"
    \* ---- the spread index between loader and save-transform
    sdir,       \* readdir of the Spreads directory
    parses,     \* directory entry -> whether xml2js parses it into a spread
    spreadsOf,  \* the loader's spreads, each as the file it came from
    spreadIndex, \* currentSpreadIndex of the editor store
    resolvedFile, \* the file the save-transform action resolved
    ixpc,       \* "start", "empty", "editing" or "saved"
    \* ---- created elements and the files on disk
    made,       \* created element id -> its data
    spreadOnDisk, \* page item id -> its element in the spread file on disk
    saveTimer,  \* the transform auto-save timer: the modification it will save
    inflight,   \* the submitted save-transform requests
    saveStatus, \* HTTP status of the last save-transform response
    exported,   \* the spread in the last exported package, if any
    pops,       \* number of editor operations so far
    \* ---- save-transform's search in the spread
    itemTransform, \* page item of the spread file -> its ItemTransform
    findReq,    \* the save-transform request in service
    findResp,   \* the response to the last request, with the request it answers
    nfind,      \* number of requests received so far
    \* ---- the file path a save request resolves
    saveReq,    \* the last save request
    writtenPath, \* the file it wrote, relative to process.cwd()
    \* ---- the editor store
    store,      \* spreads, currentSpreadIndex, history, historyIndex, maxHistorySize
    loads,      \* the spreads values setSpreads is called with
    budget,     \* store operations left (-1: not counted)
    dropped,    \* whether an addHistoryEntry so far dropped the oldest entry, or entries after the index
    \* ---- SpreadCache
    cache,      \* the keys of the cache map
    accessOrder, \* the cached ids, least recently used first
    maxSize,    \* the cache's maxSize
    recent,     \* the ids a caller has cached and not removed, in the order of their last get or set
    cop,        \* the last operation, its id, and whether the id was cached
    ncache     \* number of cache operations so far

lockVars == <<lk>>
colorVars == <<cmyk, rgb, hexOut, cpc>>
indexVars == <<sdir, parses, spreadsOf, spreadIndex, resolvedFile, ixpc>>
persistVars == <<made, spreadOnDisk, saveTimer, inflight, saveStatus, exported, pops>>
findVars == <<itemTransform, findReq, findResp, nfind>>
pathVars == <<saveReq, writtenPath>>
storeVars == <<store, loads, budget, dropped>>
cacheVars == <<cache, accessOrder, maxSize, recent, cop, ncache>>
lastVars == <<lockVars, colorVars, indexVars, persistVars, findVars, pathVars, storeVars, cacheVars>>
\* -- end of variables

fsVars     == <<files, dirs, pc, req, target, buf, resp, nreq, obs>>
packVars   == <<zpc, zreq, zip, stack, zout>>
canvasVars == <<canvas, created>>
idVars     == <<idSet, lastId, genCount>>
storyVars  == <<story, newText, withStyles, updated, stpc>>
roundVars  == <<doc, rcanvas, elements, outSpread, rtpc>>
geoVars    == <<gin, gtr, gbox, gout, gpc>>
editVars   == <<eobjs, textTimer, transTimer, sent, lastEdit, hist, burst, nedits>>
moreVars   == <<roundVars, geoVars, editVars>>
vars       == <<fsVars, packVars, canvasVars, idVars, storyVars, moreVars, lastVars>>

\* what the actions of one part leave alone
nonFsVars     == <<packVars, canvasVars, idVars, storyVars, moreVars, lastVars>>
nonPackVars   == <<fsVars, canvasVars, idVars, storyVars, moreVars, lastVars>>
nonCanvasVars == <<fsVars, packVars, idVars, storyVars, moreVars, lastVars>>
nonIdVars     == <<fsVars, packVars, canvasVars, storyVars, moreVars, lastVars>>
nonStoryVars  == <<fsVars, packVars, canvasVars, idVars, moreVars, lastVars>>
firstVars     == <<fsVars, packVars, canvasVars, idVars, storyVars>>
nonRoundVars  == <<firstVars, geoVars, editVars, lastVars>>
nonGeoVars    == <<firstVars, roundVars, editVars, lastVars>>
nonEditVars   == <<firstVars, roundVars, geoVars, lastVars>>
\* -- further parts: the rest of each
earlierVars == <<firstVars, moreVars>>
nonLockVars == <<earlierVars, colorVars, indexVars, persistVars, findVars, pathVars, storeVars, cacheVars>>
nonColorVars == <<earlierVars, lockVars, indexVars, persistVars, findVars, pathVars, storeVars, cacheVars>>
nonIndexVars == <<earlierVars, lockVars, colorVars, persistVars, findVars, pathVars, storeVars, cacheVars>>
nonPersistVars == <<earlierVars, lockVars, colorVars, indexVars, findVars, pathVars, storeVars, cacheVars>>
nonFindVars == <<earlierVars, lockVars, colorVars, indexVars, persistVars, pathVars, storeVars, cacheVars>>
nonPathVars == <<earlierVars, lockVars, colorVars, indexVars, persistVars, findVars, storeVars, cacheVars>>
nonStoreVars == <<earlierVars, lockVars, colorVars, indexVars, persistVars, findVars, pathVars, cacheVars>>
nonCacheVars == <<earlierVars, lockVars, colorVars, indexVars, persistVars, findVars, pathVars, storeVars>>
\* -- end of the rest of each


-----------------------------------------------------------------------------
(* Bounds of the model *)

\* requests received in one run
MaxRequests == 2
\* objects the editor creates (elements and groups) in one run
MaxCreated == 2
\* ids generated in one run of the id generator
MaxGen == 3
\* paragraphs of a story, character ranges of a paragraph
MaxParas == 2
MaxRanges == 2
\* page items of a source spread
MaxElems == 4
\* editor operations (edits, moves, resets) in one run
MaxEdits == 3

-----------------------------------------------------------------------------
(* The extracted tree *)

Procs == { "p1", "p2" }

\* A path is the sequence of its components below uploads/<id>/extracted.
MimetypePath == <<"mimetype">>
Spread1 == <<"Spreads", "Spread_u1.xml">>
Spread2 == <<"Spreads", "Spread_u2.xml">>
Story1 == <<"Stories", "Story_u1.xml">>
Story9 == <<"Stories", "Story_u9.xml">>

FilePaths ==
    { MimetypePath, <<"designmap.xml">>, <<".DS_Store">>,
      <<"META-INF", "container.xml">>,
      Spread1, Spread2, Story1, Story9,
      <<"Resources", "Fonts.xml">>, <<"Resources", "mimetype">> }

DirPaths == { <<"Spreads">>, <<"Stories">>, <<"Resources">>, <<"META-INF">> }

\* names that begin with a dot
HiddenNames == { ".DS_Store" }

NoFile == [tag |-> "nofile"]
\* a file opened with O_TRUNC whose data has not been written yet
Truncated == [tag |-> "truncated"]
Raw(d) == [tag |-> "raw", data |-> d]
StoryXml(d) == [tag |-> "story", data |-> d]
SpreadXml(tr) == [tag |-> "spread", tr |-> tr]

Transforms == { "t0", "t1", "t2" }
StoryDatas == { "s0", "s1" }

\* The page items of each spread file: Self, element type and the parent
\* element ("spread", "page", "group": a group directly on the spread,
\* "deep": a group on a page or a group inside a group).
Layout(path) ==
    IF path = Spread1
    THEN { [id |-> "u10", type |-> "Rectangle", parent |-> "spread"],
           [id |-> "u11", type |-> "TextFrame", parent |-> "page"],
           [id |-> "u12", type |-> "Rectangle", parent |-> "group"],
           [id |-> "u13", type |-> "Rectangle", parent |-> "deep"] }
    ELSE IF path = Spread2
    THEN { [id |-> "u20", type |-> "Rectangle", parent |-> "spread"] }
    ELSE {}

IdsOf(path) == { o.id : o \in Layout(path) }

InitialContent(path) ==
    IF path \in { Spread1, Spread2 }
    THEN SpreadXml([i \in IdsOf(path) |-> "t0"])
    ELSE IF path = Story1 THEN StoryXml("s0")
    ELSE Raw(path[Len(path)])

\* The shapes of the uploads' trees: the paths one lacks, out of FilePaths
\* and DirPaths.  The first is a regular IDML package.
TreeShapes ==
    { { <<".DS_Store">>, <<"Resources", "mimetype">> },
      { <<"Resources", "mimetype">> },
      { <<".DS_Store">> },
      { <<".DS_Store">>, <<"Resources", "mimetype">>, MimetypePath },
      { <<".DS_Store">>, <<"Resources", "mimetype">>, <<"Stories">> },
      { <<".DS_Store">>, <<"Resources", "mimetype">>, <<"Spreads">> } }

IsPrefix(d, p) == Len(d) <= Len(p) /\ SubSeq(p, 1, Len(d)) = d

Exists(fs, ds, p) ==
    \/ p \in ds
    \/ p \in FilePaths /\ fs[p] # NoFile

ParentExists(ds, p) == Len(p) = 1 \/ SubSeq(p, 1, Len(p) - 1) \in ds

\* fs.readdir(d): the names of the entries of directory d
Readdir(fs, ds, d) ==
    { p[Len(d) + 1] : p \in { q \in FilePaths \cup DirPaths :
                                 /\ Len(q) > Len(d)
                                 /\ IsPrefix(d, q)
                                 /\ Exists(fs, ds, q) } }

InitFS ==
    /\ \E absent \in TreeShapes :
          /\ dirs = DirPaths \ absent
          /\ files = [p \in FilePaths |->
                        IF \/ p \in absent
                           \/ p = Story9
                           \/ \E d \in absent : IsPrefix(d, p)
                        THEN NoFile ELSE InitialContent(p)]
    /\ pc = [p \in Procs |-> "idle"]
    /\ req = [p \in Procs |-> [kind |-> "none"]]
    /\ target = [p \in Procs |-> <<>>]
    /\ buf = [p \in Procs |-> NoFile]
    /\ resp = [p \in Procs |-> "none"]
    /\ nreq = 0
    /\ obs = NoFile

-----------------------------------------------------------------------------
(* POST /api/save-transform and POST /api/save-story *)

\* readdir's listing of Spreads/, which the handler indexes with spreadIndex
SpreadOrder == <<"Spread_u1.xml", "Spread_u2.xml">>

SpreadFiles(fs, ds) ==
    LET present(n) == n \in Readdir(fs, ds, <<"Spreads">>)
    IN  SelectSeq(SpreadOrder, present)

\* updateObjectInArray over spread[objectType], every page[objectType] and
\* every top-level group[objectType]
Found(path, typ, oid) ==
    \E o \in Layout(path) :
        /\ o.id = oid
        /\ o.type = typ
        /\ o.parent \in { "spread", "page", "group" }

StoryPath(sid) == IF sid = "u1" THEN Story1 ELSE Story9

Respond(p, status) ==
    /\ resp' = [resp EXCEPT ![p] = status]
    /\ pc' = [pc EXCEPT ![p] = "idle"]

\* request.json(), validation, readdir(spreadsDir), spreadFiles[spreadIndex]
ReceiveTransform(p, idx, oid, tr, typ) ==
    /\ pc[p] = "idle"
    /\ nreq < MaxRequests
    /\ nreq' = nreq + 1
    /\ req' = [req EXCEPT ![p] = [kind |-> "transform", idx |-> idx, oid |-> oid,
                                   tr |-> tr, typ |-> typ]]
    /\ buf' = [buf EXCEPT ![p] = NoFile]
    /\ IF tr = ""
       THEN /\ Respond(p, "400")
            /\ target' = [target EXCEPT ![p] = <<>>]
       ELSE IF <<"Spreads">> \notin dirs
       THEN /\ Respond(p, "500")
            /\ target' = [target EXCEPT ![p] = <<>>]
       ELSE IF idx + 1 > Len(SpreadFiles(files, dirs))
       THEN /\ Respond(p, "404")
            /\ target' = [target EXCEPT ![p] = <<>>]
       ELSE /\ target' = [target EXCEPT
                            ![p] = <<"Spreads", SpreadFiles(files, dirs)[idx + 1]>>]
            /\ pc' = [pc EXCEPT ![p] = "read"]
            /\ resp' = [resp EXCEPT ![p] = "none"]
    /\ UNCHANGED <<files, dirs, obs>>
    /\ UNCHANGED nonFsVars

\* readFile(spreadPath), parseStringPromise, the search, buildObject
ReadSpread(p) ==
    /\ pc[p] = "read"
    /\ LET c == files[target[p]]
       IN  IF c.tag # "spread"
           THEN Respond(p, "500") /\ UNCHANGED buf
           ELSE IF ~Found(target[p], req[p].typ, req[p].oid)
           THEN Respond(p, "404") /\ UNCHANGED buf
           ELSE /\ buf' = [buf EXCEPT
                             ![p] = SpreadXml([c.tr EXCEPT ![req[p].oid] = req[p].tr])]
                /\ pc' = [pc EXCEPT ![p] = "open"]
                /\ UNCHANGED resp
    /\ UNCHANGED <<files, dirs, req, target, nreq, obs>>
    /\ UNCHANGED nonFsVars

\* request.json(), validation, the file path, serializeStoryToXML
ReceiveStory(p, sid, data) ==
    /\ pc[p] = "idle"
    /\ nreq < MaxRequests
    /\ nreq' = nreq + 1
    /\ req' = [req EXCEPT ![p] = [kind |-> "story", sid |-> sid, data |-> data]]
    /\ IF data = ""
       THEN /\ Respond(p, "400")
            /\ target' = [target EXCEPT ![p] = <<>>]
            /\ buf' = [buf EXCEPT ![p] = NoFile]
       ELSE /\ target' = [target EXCEPT ![p] = StoryPath(sid)]
            /\ buf' = [buf EXCEPT ![p] = StoryXml(data)]
            /\ pc' = [pc EXCEPT ![p] = "open"]
            /\ resp' = [resp EXCEPT ![p] = "none"]
    /\ UNCHANGED <<files, dirs, obs>>
    /\ UNCHANGED nonFsVars

\* writeFile, first half: open(path, 'w') creates the file or truncates it
OpenFile(p) ==
    /\ pc[p] = "open"
    /\ IF ~ParentExists(dirs, target[p])
       THEN Respond(p, "500") /\ UNCHANGED files
       ELSE /\ files' = [files EXCEPT ![target[p]] = Truncated]
            /\ pc' = [pc EXCEPT ![p] = "write"]
            /\ UNCHANGED resp
    /\ UNCHANGED <<dirs, req, target, buf, nreq, obs>>
    /\ UNCHANGED nonFsVars

\* what another descriptor's longer data leaves behind the bytes written here
Spliced == [tag |-> "spliced"]

\* a mutant of WriteFile: the data goes to the file of every request in service
WriteFileShared(p) ==
    /\ pc[p] = "write"
    /\ files' = [f \in FilePaths |->
                    IF \E q \in Procs : target[q] = f THEN buf[p] ELSE files[f]]
    /\ Respond(p, "200")
    /\ UNCHANGED <<dirs, req, target, buf, nreq, obs>>
    /\ UNCHANGED nonFsVars

\* writeFile, second half: the data is written at offset 0 and the file closed
WriteFile(p) ==
    /\ pc[p] = "write"
    /\ \E out \in (IF files[target[p]] = Truncated
                    THEN { buf[p] } ELSE { buf[p], Spliced }) :
          files' = [files EXCEPT ![target[p]] = out]
    /\ Respond(p, "200")
    /\ UNCHANGED <<dirs, req, target, buf, nreq, obs>>
    /\ UNCHANGED nonFsVars

\* a readFile of the editor loader or of the packer that runs meanwhile
ReadFile(f) ==
    /\ obs = NoFile
    /\ files[f] # NoFile
    /\ obs' = files[f]
    /\ UNCHANGED <<files, dirs, pc, req, target, buf, resp, nreq>>
    /\ UNCHANGED nonFsVars

\* the save-transform bodies: <<spreadIndex, objectId, transform, objectType>>
TransformBodies ==
    { <<0, "u10", "t1", "Rectangle">>, <<0, "u10", "t2", "Rectangle">>,
      <<0, "u11", "t1", "TextFrame">>, <<0, "u11", "t1", "Rectangle">>,
      <<0, "u12", "t1", "Rectangle">>, <<0, "u13", "t1", "Rectangle">>,
      <<0, "u99", "t1", "Rectangle">>, <<1, "u20", "t1", "Rectangle">>,
      <<2, "u10", "t1", "Rectangle">>, <<0, "u10", "", "Rectangle">> }

\* the save-story bodies: <<storyId, storyData>>
StoryBodies == { <<"u1", "s1">>, <<"u9", "s1">>, <<"u1", "">> }

NextFS ==
    \/ \E p \in Procs, b \in TransformBodies :
          ReceiveTransform(p, b[1], b[2], b[3], b[4])
    \/ \E p \in Procs : ReadSpread(p)
    \/ \E p \in Procs, b \in StoryBodies : ReceiveStory(p, b[1], b[2])
    \/ \E p \in Procs : OpenFile(p)
    \/ \E p \in Procs : WriteFile(p)
    \/ \E f \in { Spread1, Story1 } : ReadFile(f)

-----------------------------------------------------------------------------
(* packIDML, packIDMLWithSpread and GET /api/export-idml/:id *)

DefaultMimetype == Raw("application/vnd.adobe.indesign-idml-package")

Names(z) == { z[i].name : i \in 1..Len(z) }

\* JSZip creates the folder entries of a name that are not there yet
RECURSIVE AddFolders(_, _, _)
AddFolders(z, name, k) ==
    IF k >= Len(name) THEN z
    ELSE LET folder == SubSeq(name, 1, k)
             zz == IF folder \in Names(z) THEN z
                   ELSE Append(z, [name |-> folder, dir |-> TRUE,
                                   content |-> NoFile, comp |-> "default"])
         IN  AddFolders(zz, name, k + 1)

\* zip.file(name, content, { compression }): a name already in the archive
\* keeps its place and takes the new content and options
ZipFile(z, name, content, comp) ==
    LET zz == AddFolders(z, name, 1)
        e == [name |-> name, dir |-> FALSE, content |-> content, comp |-> comp]
    IN  IF name \in Names(zz)
        THEN [i \in 1..Len(zz) |-> IF zz[i].name = name THEN e ELSE zz[i]]
        ELSE Append(zz, e)

\* zip.generateAsync({ compression: 'DEFLATE' }): the entries in insertion
\* order, each with its own compression when it has one
GenerateAsync(z) ==
    [i \in 1..Len(z) |->
        [name |-> z[i].name, content |-> z[i].content,
         method |-> IF z[i].comp = "default" THEN "DEFLATE" ELSE z[i].comp]]

InitPack ==
    /\ zpc = "idle"
    /\ zreq = [mode |-> "none"]
    /\ zip = <<>>
    /\ stack = <<>>
    /\ zout = <<>>

\* the export loader calls packIDML(extractedDir)
StartPack ==
    /\ zpc = "idle"
    /\ zreq' = [mode |-> "pack"]
    /\ zpc' = "mimetype"
    /\ UNCHANGED <<zip, stack, zout>>
    /\ UNCHANGED nonPackVars

\* packIDMLWithSpread(extractedDir, spreadFile, spreadXML)
StartPackWithSpread(spreadFile, xml) ==
    /\ zpc = "idle"
    /\ zreq' = [mode |-> "withSpread", spreadFile |-> spreadFile, xml |-> xml]
    /\ zpc' = "mimetype"
    /\ UNCHANGED <<zip, stack, zout>>
    /\ UNCHANGED nonPackVars

\* the mimetype entry: read from the tree by packIDML (created when the read
\* fails), always created by packIDMLWithSpread
AddMimetype ==
    /\ zpc = "mimetype"
    /\ zip' = ZipFile(zip, MimetypePath,
                      IF zreq.mode = "pack" /\ files[MimetypePath] # NoFile
                      THEN files[MimetypePath] ELSE DefaultMimetype,
                      "STORE")
    /\ stack' = <<[dir |-> <<>>, listed |-> FALSE, rest |-> {}]>>
    /\ zpc' = "walk"
    /\ UNCHANGED <<zreq, zout>>
    /\ UNCHANGED nonPackVars

ExcludePaths ==
    IF zreq.mode = "withSpread" THEN { <<"Spreads", zreq.spreadFile>> } ELSE {}

\* addDirectoryToZip / addDirectoryToZipExcept: readdir(dirPath)
ListDir ==
    /\ zpc = "walk"
    /\ stack # <<>>
    /\ ~stack[1].listed
    /\ stack' = [stack EXCEPT ![1] = [dir |-> stack[1].dir, listed |-> TRUE,
                                      rest |-> Readdir(files, dirs, stack[1].dir)]]
    /\ UNCHANGED <<zpc, zreq, zip, zout>>
    /\ UNCHANGED nonPackVars

\* (mutant) the walk does not skip the mimetype entry
SkippedButMimetype(path) ==
    \/ path \in ExcludePaths
    \/ path[Len(path)] \in HiddenNames

\* the entry is skipped: excluded, named mimetype, or hidden
Skipped(path) ==
    \/ path \in ExcludePaths
    \/ path[Len(path)] = "mimetype"
    \/ path[Len(path)] \in HiddenNames

\* one iteration of the loop over the entries, in the order readdir gave
VisitEntry(n) ==
    /\ zpc = "walk"
    /\ stack # <<>>
    /\ stack[1].listed
    /\ n \in stack[1].rest
    /\ LET path == stack[1].dir \o <<n>>
           popped == [stack EXCEPT ![1].rest = @ \ {n}]
       IN  IF Skipped(path)
           THEN stack' = popped /\ UNCHANGED zip
           ELSE IF path \in dirs
           THEN /\ stack' = <<[dir |-> path, listed |-> FALSE, rest |-> {}]>>
                             \o popped
                /\ UNCHANGED zip
           ELSE /\ stack' = popped
                /\ zip' = ZipFile(zip, path, files[path], "default")
    /\ UNCHANGED <<zpc, zreq, zout>>
    /\ UNCHANGED nonPackVars

\* the loop over a directory's entries is over
LeaveDir ==
    /\ zpc = "walk"
    /\ stack # <<>>
    /\ stack[1].listed
    /\ stack[1].rest = {}
    /\ stack' = Tail(stack)
    /\ zpc' = IF Len(stack) = 1 THEN "generate" ELSE "walk"
    /\ UNCHANGED <<zreq, zip, zout>>
    /\ UNCHANGED nonPackVars

\* the updated spread is added (packIDMLWithSpread) and the ZIP generated;
\* the export loader returns the buffer with status 200
Generate ==
    /\ zpc = "generate"
    /\ LET z == IF zreq.mode = "withSpread"
                THEN ZipFile(zip, <<"Spreads", zreq.spreadFile>>, zreq.xml, "default")
                ELSE zip
       IN  /\ zip' = z
           /\ zout' = GenerateAsync(z)
    /\ zpc' = "done"
    /\ UNCHANGED <<zreq, stack>>
    /\ UNCHANGED nonPackVars

AllNames == { p[Len(p)] : p \in FilePaths \cup DirPaths }

NextPack ==
    \/ StartPack
    \/ \E sf \in { "Spread_u1.xml", "Spread_u2.xml" } :
          StartPackWithSpread(sf, SpreadXml([i \in {"u10"} |-> "t1"]))
    \/ AddMimetype
    \/ ListDir
    \/ \E n \in AllNames : VisitEntry(n)
    \/ LeaveDir
    \/ Generate

\* validateIDMLStructure(extractedDir): the required pieces that are missing
ValidateIDMLStructure(fs, ds) ==
    LET requiredFiles == { MimetypePath, <<"META-INF", "container.xml">>,
                           <<"designmap.xml">> }
        requiredDirs == { <<"Spreads">>, <<"Stories">>, <<"Resources">> }
        missingFiles == { f \in requiredFiles : fs[f] = NoFile }
                        \cup { d \in requiredDirs : d \notin ds }
    IN  [valid |-> missingFiles = {}, missingFiles |-> missingFiles]

-----------------------------------------------------------------------------
(* generateUniqueID *)

MinHex == 256
MaxHex == 65535

\* the values of Math.random() the model draws, given as the hex they yield
\* before the range is applied
HexSamples == { 16, 256, 257, 4095, 8192, 65534, 65535, 65536 }

\* Math.floor(Math.random() * (0xffff - 0x100) + 0x100)
RandomHexes == { h \in HexSamples : MinHex <= h /\ h < MaxHex }

HexChars == <<"0", "1", "2", "3", "4", "5", "6", "7",
              "8", "9", "a", "b", "c", "d", "e", "f">>

\* Number.prototype.toString(16)
RECURSIVE ToHex(_)
ToHex(n) ==
    IF n < 16 THEN <<HexChars[n + 1]>>
    ELSE Append(ToHex(n \div 16), HexChars[(n % 16) + 1])

\* `u${hex}`
IdOf(h) == <<"u">> \o ToHex(h)

\* (mutant) the loop does not look the id up in the set
GenerateUncheckedID(existingIds) == { IdOf(h) : h \in RandomHexes }

\* the ids generateUniqueID(existingIds) can return: the loop draws again
\* while the set has the id (and throws after maxAttempts draws)
GenerateUniqueID(existingIds) ==
    { IdOf(h) : h \in { x \in RandomHexes : IdOf(x) \notin existingIds } }

InitIds ==
    /\ idSet \in SUBSET { IdOf(h) : h \in { 183, 256, 257, 4095, 65534 } }
    /\ lastId = <<>>
    /\ genCount = 0

\* one more id generated against the set, and added to it
Generate1 ==
    /\ genCount < MaxGen
    /\ \E id \in GenerateUniqueID(idSet) :
          /\ lastId' = id
          /\ idSet' = idSet \cup { id }
    /\ genCount' = genCount + 1
    /\ UNCHANGED nonIdVars

NextIds == Generate1

-----------------------------------------------------------------------------
(* The canvas: element factory and group handler *)

Obj(id, type, data, kids) ==
    [id |-> id, type |-> type, data |-> data, kids |-> kids]

\* The spread loaded on the canvas.  createTextFrameFromIDML sets the frame's
\* idmlId property and no data; every other loaded object has data.idmlId.
LoadedSpread ==
    << Obj(IdOf(183), "Page", TRUE, <<>>),
       Obj(IdOf(256), "Rectangle", TRUE, <<>>),
       Obj(IdOf(257), "TextFrame", FALSE, <<>>),
       Obj(IdOf(4096), "Group", TRUE,
           << Obj(IdOf(4095), "Rectangle", TRUE, <<>>),
              Obj(IdOf(258), "GraphicLine", TRUE, <<>>) >>) >>

InitCanvas ==
    /\ canvas = LoadedSpread
    /\ created = 0

\* getExistingIds(canvas): data.idmlId of the objects of canvas.getObjects()
GetExistingIds(cv) ==
    { cv[i].id : i \in { j \in 1..Len(cv) : cv[j].data } }

\* the page background is neither selectable nor evented
Selectable(o) == o.type # "Page"

RemoveAt(seq, S) ==
    LET keep == { i \in 1..Len(seq) : i \notin S }
        F[i \in 0..Len(seq)] ==
            IF i = 0 THEN <<>>
            ELSE IF i \in keep THEN Append(F[i - 1], seq[i]) ELSE F[i - 1]
    IN  F[Len(seq)]

PickAt(seq, S) == RemoveAt(seq, (1..Len(seq)) \ S)

\* createNewTextFrame / createNewRectangle / createNewLine / createNewEllipse
\* followed by addElementToCanvas
CreateElement(type) ==
    /\ created < MaxCreated
    /\ \E id \in GenerateUniqueID(GetExistingIds(canvas)) :
          canvas' = Append(canvas, Obj(id, type, TRUE, <<>>))
    /\ created' = created + 1
    /\ UNCHANGED nonCanvasVars

\* groupSelectedObjects(canvas) with the objects at S selected
GroupSelectedObjects(S) ==
    /\ created < MaxCreated
    /\ S \subseteq 1..Len(canvas)
    /\ Cardinality(S) >= 2
    /\ \A i \in S : Selectable(canvas[i])
    /\ \E groupId \in GenerateUniqueID(GetExistingIds(canvas)) :
          canvas' = Append(RemoveAt(canvas, S),
                           Obj(groupId, "Group", TRUE, PickAt(canvas, S)))
    /\ created' = created + 1
    /\ UNCHANGED nonCanvasVars

\* ungroupSelectedGroup(canvas) with the group at i selected
UngroupSelectedGroup(i) ==
    /\ i \in 1..Len(canvas)
    /\ canvas[i].type = "Group"
    /\ Len(canvas[i].kids) > 0
    /\ canvas' = RemoveAt(canvas \o canvas[i].kids, {i})
    /\ UNCHANGED created
    /\ UNCHANGED nonCanvasVars

NextCanvas ==
    \/ \E type \in { "TextFrame", "Rectangle", "GraphicLine", "Oval" } :
          CreateElement(type)
    \/ \E S \in SUBSET (1..Len(canvas)) : GroupSelectedObjects(S)
    \/ \E i \in 1..Len(canvas) : UngroupSelectedGroup(i)

\* the ids of the page items on the canvas, nested ones included
RECURSIVE ItemIds(_)
ItemIds(objs) ==
    IF objs = <<>> THEN <<>>
    ELSE (IF Head(objs).type = "Page" THEN <<>> ELSE <<Head(objs).id>>)
         \o ItemIds(Head(objs).kids) \o ItemIds(Tail(objs))

-----------------------------------------------------------------------------
(* storyToPlainText and updateStoryFromText *)

Range(style, content, family, size) ==
    [appliedCharacterStyle |-> style, content |-> content,
     fontFamily |-> family, fontSize |-> size]

\* the character ranges parseStoryXML yields in the model: Content joined,
\* with a line feed appended when the range has a Br
ParsedRanges ==
    { Range("CharacterStyle/Bold", <<"a">>, "Times", 10),
      Range("CharacterStyle/Italic", <<"b">>, "Arial", 14),
      Range("CharacterStyle/$ID/[No character style]", <<"a", "\n">>, "Arial", 14) }

SeqsUpTo(S, n) == UNION { [1..k -> S] : k \in 0..n }

Para(ranges) ==
    [appliedParagraphStyle |-> "ParagraphStyle/Title",
     justification |-> "CenterJustified",
     characterRanges |-> ranges]

ParsedStories ==
    { [id |-> "u1", paragraphs |-> ps] :
        ps \in SeqsUpTo({ Para(rs) : rs \in SeqsUpTo(ParsedRanges, MaxRanges) },
                        MaxParas) }

RECURSIVE Join(_, _)
\* Array.prototype.join
Join(strs, sep) ==
    IF strs = <<>> THEN <<>>
    ELSE IF Len(strs) = 1 THEN strs[1]
    ELSE strs[1] \o sep \o Join(Tail(strs), sep)

ParaBreak == <<"\n", "\n">>

StoryToPlainText(s) ==
    Join([i \in 1..Len(s.paragraphs) |->
            Join([j \in 1..Len(s.paragraphs[i].characterRanges) |->
                    s.paragraphs[i].characterRanges[j].content], <<>>)],
         ParaBreak)

\* newText.split('\n\n')
RECURSIVE Split(_)
Split(text) ==
    LET hits == { i \in 1..(Len(text) - 1) : SubSeq(text, i, i + 1) = ParaBreak }
    IN  IF hits = {} THEN <<text>>
        ELSE LET i == CHOOSE x \in hits : \A y \in hits : x <= y
             IN  <<SubSeq(text, 1, i - 1)>> \o Split(SubSeq(text, i + 2, Len(text)))

DefaultRange(text) ==
    Range("CharacterStyle/$ID/[No character style]", text, "Arial", 14)

\* one iteration of updateStoryFromText's loop: the paragraph of slot i
UpdatedParagraph(original, i, paraText, styles) ==
    IF i <= Len(original.paragraphs) /\ styles
    THEN LET op == original.paragraphs[i]
         IN  [op EXCEPT !.characterRanges =
                [idx \in 1..Len(op.characterRanges) |->
                    IF idx = 1
                    THEN [op.characterRanges[idx] EXCEPT !.content = paraText]
                    ELSE op.characterRanges[idx]]]
    ELSE [appliedParagraphStyle |->
              IF i <= Len(original.paragraphs)
              THEN original.paragraphs[i].appliedParagraphStyle
              ELSE "ParagraphStyle/$ID/NormalParagraphStyle",
          justification |->
              IF i <= Len(original.paragraphs)
              THEN original.paragraphs[i].justification
              ELSE "undefined",
          characterRanges |-> <<DefaultRange(paraText)>>]

UpdateStoryFromText(original, text, styles) ==
    LET paragraphTexts == Split(text)
    IN  [original EXCEPT !.paragraphs =
            [i \in 1..Len(paragraphTexts) |->
                UpdatedParagraph(original, i, paragraphTexts[i], styles)]]

InitStory ==
    /\ story \in ParsedStories
    /\ newText = <<>>
    /\ withStyles = FALSE
    /\ updated = [id |-> "u1", paragraphs |-> <<>>]
    /\ stpc = "parsed"

\* the texts the editor hands back: the story's own text and edits of it
EditedTexts(s) ==
    { StoryToPlainText(s), StoryToPlainText(s) \o <<"b">>,
      <<"b">> \o ParaBreak \o <<"a">> \o ParaBreak \o <<"b">> }

UpdateFromText(text, styles) ==
    /\ stpc = "parsed"
    /\ newText' = text
    /\ withStyles' = styles
    /\ updated' = UpdateStoryFromText(story, text, styles)
    /\ stpc' = "updated"
    /\ UNCHANGED story
    /\ UNCHANGED nonStoryVars

NextStory ==
    \E text \in EditedTexts(story), styles \in BOOLEAN : UpdateFromText(text, styles)

-----------------------------------------------------------------------------
(* The specifications *)

(* A spread from XML to the canvas and back to XML *)

\* attribute bags are functions from attribute names to values; a missing
\* key reads as JavaScript's undefined
Get(bag, name) == IF name \in DOMAIN bag THEN bag[name] ELSE "undefined"

\* a || b
Or(a, b) == IF a = "undefined" \/ a = "" THEN b ELSE a

NoData == [n \in {} |-> "undefined"]

Element(type, attributes) == [type |-> type, attributes |-> attributes]

\* the page items a source spread is made of
SourceElements ==
    { Element("Rectangle",
              "Self" :> "u1" @@ "ItemLayer" :> "L2" @@ "ContentType" :> "GraphicType"
              @@ "FillColor" :> "Color/Red" @@ "CustomVendorAttr" :> "xyz"),
      Element("Rectangle", "Self" :> "u2" @@ "ItemLayer" :> "L2"),
      Element("Rectangle", "Self" :> "u3" @@ "ContentType" :> "Unassigned"),
      Element("TextFrame",
              "Self" :> "u4" @@ "ParentStory" :> "u9" @@ "ContentType" :> "TextType"),
      Element("GraphicLine",
              "Self" :> "u5" @@ "StrokeColor" :> "Color/Blue" @@ "StrokeWeight" :> "2") }

SourceDocs ==
    { d \in UNION { [1..k -> SourceElements] : k \in 0..MaxElems } :
        \A i \in 1..Len(d), j \in 1..Len(d) : i # j => d[i] # d[j] }

\* xml2js: the children of Spread as one array per element name, each in
\* document order
ParseSpread(d) ==
    [t \in { "TextFrame", "Rectangle", "GraphicLine" } |->
        SelectSeq(d, LAMBDA e : e.type = t)]

\* createTextFrame -> IDMLTextFrame.fromIDML: the id is a property of the
\* object, which gets no data
CreateTextFrame(frame) ==
    [type |-> "i-text",
     idmlId |-> Get(frame.attributes, "Self"),
     parentStory |-> Get(frame.attributes, "ParentStory"),
     data |-> NoData]

CreateRectangle(rect) ==
    [type |-> "rect", idmlId |-> "undefined", parentStory |-> "undefined",
     data |-> "idmlType" :> "Rectangle"
              @@ "idmlId" :> Get(rect.attributes, "Self")
              @@ "contentType" :> Get(rect.attributes, "ContentType")
              @@ "layer" :> Get(rect.attributes, "ItemLayer")]

CreateGraphicLine(line) ==
    [type |-> "line", idmlId |-> "undefined", parentStory |-> "undefined",
     data |-> "idmlType" :> "GraphicLine"
              @@ "idmlId" :> Get(line.attributes, "Self")
              @@ "strokeColor" :> Get(line.attributes, "StrokeColor")
              @@ "strokeWeight" :> Get(line.attributes, "StrokeWeight")
              @@ "layer" :> Get(line.attributes, "ItemLayer")]

\* a mutant of CanvasAdd: the object goes below the others
CanvasAddFirst(cv, obj) == <<obj>> \o cv

\* canvas.add(obj)
CanvasAdd(cv, obj) == Append(cv, obj)

RECURSIVE AddAll(_, _)
AddAll(cv, objs) ==
    IF objs = <<>> THEN cv ELSE AddAll(CanvasAdd(cv, Head(objs)), Tail(objs))

\* loadSpreadChildren: text frames, then rectangles, then lines
LoadSpreadChildren(spread) ==
    LET frames == [i \in 1..Len(spread.TextFrame) |-> CreateTextFrame(spread.TextFrame[i])]
        rects  == [i \in 1..Len(spread.Rectangle) |-> CreateRectangle(spread.Rectangle[i])]
        lines  == [i \in 1..Len(spread.GraphicLine) |->
                      CreateGraphicLine(spread.GraphicLine[i])]
    IN  AddAll(AddAll(AddAll(<<>>, frames), rects), lines)

\* fabricObjectToIDML with convertRectangle and convertGraphicLine: no
\* element (null) for an object without data.idmlType; the attributes are
\* built from the fields of data, each with its default. ItemTransform,
\* Visible and Locked are left out here.
FabricObjectToIDML(obj) ==
    LET data == obj.data
        idmlType == Get(data, "idmlType")
        baseAttributes ==
            "Self" :> Or(Get(data, "idmlId"), "random")
            @@ "ItemLayer" :> Or(Or(Get(data, "layer"), Get(data, "ItemLayer")), "Layer 1")
    IN  IF idmlType = "undefined" THEN <<>>
        ELSE IF idmlType = "Rectangle"
        THEN << Element("Rectangle",
                  baseAttributes
                  @@ "ContentType" :> Or(Get(data, "contentType"), "GraphicType")
                  @@ "StoryTitle" :> Or(Get(data, "StoryTitle"), "")
                  @@ "FillColor" :> Or(Get(data, "FillColor"), "Color/Paper")
                  @@ "StrokeColor" :> Or(Get(data, "StrokeColor"), "Color/Black")
                  @@ "StrokeWeight" :> Or(Get(data, "StrokeWeight"), "1")) >>
        ELSE IF idmlType = "GraphicLine"
        THEN << Element("GraphicLine",
                  baseAttributes
                  @@ "ContentType" :> "Unassigned"
                  @@ "StrokeColor" :>
                        Or(Or(Get(data, "strokeColor"), Get(data, "StrokeColor")), "Color/Black")
                  @@ "StrokeWeight" :>
                        Or(Or(Get(data, "strokeWeight"), Get(data, "StrokeWeight")), "1")
                  @@ "LeftLineEnd" :> Or(Get(data, "LeftLineEnd"), "None")) >>
        ELSE <<>>

RECURSIVE CanvasToIDMLElements(_)
CanvasToIDMLElements(cv) ==
    IF cv = <<>> THEN <<>>
    ELSE (IF Get(Head(cv).data, "idmlType") = "Page" THEN <<>>
          ELSE FabricObjectToIDML(Head(cv)))
         \o CanvasToIDMLElements(Tail(cv))

\* serializeSpreadToXML: the elements grouped by type, each group in the
\* order of the list; elementToXMLObject makes the attributes the element's $
SerializeSpreadToXML(els) ==
    [t \in { "TextFrame", "Rectangle", "GraphicLine" } |->
        LET ofType == SelectSeq(els, LAMBDA e : e.type = t)
        IN  [i \in 1..Len(ofType) |-> ofType[i].attributes]]

InitRound ==
    /\ doc \in SourceDocs
    /\ rcanvas = <<>>
    /\ elements = <<>>
    /\ outSpread = SerializeSpreadToXML(<<>>)
    /\ rtpc = "source"

LoadSpread ==
    /\ rtpc = "source"
    /\ rcanvas' = LoadSpreadChildren(ParseSpread(doc))
    /\ rtpc' = "loaded"
    /\ UNCHANGED <<doc, elements, outSpread>>
    /\ UNCHANGED nonRoundVars

ConvertCanvas ==
    /\ rtpc = "loaded"
    /\ elements' = CanvasToIDMLElements(rcanvas)
    /\ rtpc' = "converted"
    /\ UNCHANGED <<doc, rcanvas, outSpread>>
    /\ UNCHANGED nonRoundVars

SerializeSpread ==
    /\ rtpc = "converted"
    /\ outSpread' = SerializeSpreadToXML(elements)
    /\ rtpc' = "serialized"
    /\ UNCHANGED <<doc, rcanvas, elements>>
    /\ UNCHANGED nonRoundVars

NextRound == LoadSpread \/ ConvertCanvas \/ SerializeSpread

-----------------------------------------------------------------------------
(* parseItemTransform, composeItemTransform, parseGeometricBounds *)

\* Numbers are fixed-point: Unit stands for 1.0, so one step is 1e-4.
Unit == 10000

\* Number(token) of a token that is no number
NaN == -999999999

\* pointsToPixelsRatio = 0.75 = RatioNum / RatioDen
RatioNum == 3
RatioDen == 4

\* the angles the model computes with, in degrees
GridAngles == { -135, -90, -45, 0, 45, 90, 135, 180 }

\* a whole number of turns away, in (-180, 180]
Normalize(deg) == ((deg + 179) % 360) - 179

\* Math.cos and Math.sin of an angle in degrees, on the grid
Cos(deg) ==
    LET g == Normalize(deg)
    IN  IF g = 0 THEN Unit
        ELSE IF g = 180 THEN -Unit
        ELSE IF g \in { 90, -90 } THEN 0
        ELSE IF g \in { 45, -45 } THEN 7071
        ELSE -7071

Sin(deg) == Cos(deg - 90)

\* x * y of two fixed-point numbers, rounded
Mul(x, y) == (x * y + Unit \div 2) \div Unit

RECURSIVE FloorSqrt(_, _, _)
FloorSqrt(n, lo, hi) ==
    IF lo >= hi THEN lo
    ELSE LET mid == (lo + hi + 1) \div 2
         IN  IF mid * mid <= n THEN FloorSqrt(n, mid, hi)
             ELSE FloorSqrt(n, lo, mid - 1)

\* Math.sqrt(x*x + y*y) of two fixed-point numbers, rounded
Hypot(x, y) ==
    LET n == x * x + y * y
        r == FloorSqrt(n, 0, 4 * Unit)
    IN  IF n - r * r > r THEN r + 1 ELSE r

\* Math.atan2(y, x) in degrees: the grid angle of the direction (x, y)
Atan2(y, x) ==
    IF x = 0 /\ y = 0 THEN 0
    ELSE CHOOSE g \in GridAngles :
            \A h \in GridAngles :
                x * Cos(g) + y * Sin(g) >= x * Cos(h) + y * Sin(h)

Transform(scaleX, scaleY, angle, left, top, skewX, skewY) ==
    [scaleX |-> scaleX, scaleY |-> scaleY, angle |-> angle,
     left |-> left, top |-> top, skewX |-> skewX, skewY |-> skewY]

IdentityTransform == Transform(Unit, Unit, 0, 0, 0, 0, 0)

ConvertPointsToPixels(points) ==
    IF points = NaN THEN NaN ELSE (points * RatioNum) \div RatioDen

\* parseItemTransform on the values of transformString.split(' ').map(Number);
\* a NaN among the values makes every number computed from it NaN
ParseItemTransform(values) ==
    IF Len(values) # 6 THEN IdentityTransform
    ELSE LET a == values[1]
             b == values[2]
             c == values[3]
             d == values[4]
             tx == values[5]
             ty == values[6]
             angle == IF a = NaN \/ b = NaN THEN NaN ELSE Atan2(b, a)
         IN  Transform(IF a = NaN \/ b = NaN THEN NaN ELSE Hypot(a, b),
                       IF c = NaN \/ d = NaN THEN NaN ELSE Hypot(c, d),
                       angle,
                       ConvertPointsToPixels(tx),
                       ConvertPointsToPixels(ty),
                       IF c = NaN \/ d = NaN \/ angle = NaN THEN NaN
                       ELSE Atan2(c, d) - 90 - angle,
                       0)

\* parseGeometricBounds on the values of boundsString.split(' ').map(Number)
ParseGeometricBounds(bounds) ==
    IF Len(bounds) # 4
    THEN [top |-> 0, left |-> 0, width |-> 100 * Unit, height |-> 100 * Unit]
    ELSE LET y1 == bounds[1]
             x1 == bounds[2]
             y2 == bounds[3]
             x2 == bounds[4]
         IN  [top |-> ConvertPointsToPixels(y1),
              left |-> ConvertPointsToPixels(x1),
              width |-> IF x1 = NaN \/ x2 = NaN THEN NaN
                        ELSE ConvertPointsToPixels(x2 - x1),
              height |-> IF y1 = NaN \/ y2 = NaN THEN NaN
                         ELSE ConvertPointsToPixels(y2 - y1)]

\* x || fallback for a number x: 0 and NaN are falsy
OrNum(x, fallback) == IF x = 0 \/ x = NaN THEN fallback ELSE x

\* composeItemTransform(obj): the six numbers it formats with toFixed(6)
ComposeItemTransform(obj) ==
    LET scaleX == OrNum(obj.scaleX, Unit)
        scaleY == OrNum(obj.scaleY, Unit)
        angle == OrNum(obj.angle, 0)
        left == OrNum(obj.left, 0)
        top == OrNum(obj.top, 0)
        skewX == OrNum(obj.skewX, 0)
    IN  << Mul(scaleX, Cos(angle)),
           Mul(scaleX, Sin(angle)),
           Mul(scaleY, Sin(skewX - angle)),
           Mul(scaleY, Cos(angle)),
           (left * RatioDen) \div RatioNum,
           (top * RatioDen) \div RatioNum >>

\* the matrix of a rotation by deg, a uniform scale and a translation
Matrix(deg, scale, tx, ty) ==
    << Mul(scale, Cos(deg)), Mul(scale, Sin(deg)),
       -Mul(scale, Sin(deg)), Mul(scale, Cos(deg)), tx, ty >>

WellFormedMatrices ==
    { Matrix(deg, scale, t[1], t[2]) :
        deg \in GridAngles, scale \in { Unit, 2 * Unit },
        t \in { <<0, 0>>, <<120 * Unit, -40 * Unit>> } }

MalformedMatrices ==
    { <<NaN>>,
      <<Unit, 0, 0, Unit, 0>>,
      <<Unit, 0, 0, Unit, 0, 0, 0>>,
      <<NaN, NaN, NaN, NaN, NaN, NaN>>,
      <<Unit, 0, 0, Unit, NaN, 0>> }

WellFormedBounds == { <<0, 0, 792 * Unit, 612 * Unit>>, <<-40 * Unit, 8 * Unit, 0, 16 * Unit>> }

MalformedBounds == { <<NaN>>, <<0, 0, 792 * Unit>>, <<NaN, NaN, NaN, NaN>>,
                     <<0, 0, NaN, 612 * Unit>> }

\* what an element's attribute holds: the values of a string, or nothing
\* when the element has no such attribute
GeoInputs ==
    { [kind |-> "matrix", defined |-> TRUE, values |-> m] :
        m \in WellFormedMatrices \cup MalformedMatrices }
    \cup { [kind |-> "bounds", defined |-> TRUE, values |-> b] :
             b \in WellFormedBounds \cup MalformedBounds }
    \cup { [kind |-> k, defined |-> FALSE, values |-> <<>>] : k \in { "matrix", "bounds" } }

NoBox == [top |-> 0, left |-> 0, width |-> 0, height |-> 0]

InitGeo ==
    /\ gin \in GeoInputs
    /\ gtr = IdentityTransform
    /\ gbox = NoBox
    /\ gout = <<>>
    /\ gpc = "input"

\* attrs.ItemTransform is undefined: undefined.split throws a TypeError
ParseThrows ==
    /\ gpc = "input"
    /\ ~gin.defined
    /\ gpc' = "threw"
    /\ UNCHANGED <<gin, gtr, gbox, gout>>
    /\ UNCHANGED nonGeoVars

ParseTransform ==
    /\ gpc = "input"
    /\ gin.defined /\ gin.kind = "matrix"
    /\ gtr' = ParseItemTransform(gin.values)
    /\ gpc' = "parsed"
    /\ UNCHANGED <<gin, gbox, gout>>
    /\ UNCHANGED nonGeoVars

ParseBounds ==
    /\ gpc = "input"
    /\ gin.defined /\ gin.kind = "bounds"
    /\ gbox' = ParseGeometricBounds(gin.values)
    /\ gpc' = "parsed"
    /\ UNCHANGED <<gin, gtr, gout>>
    /\ UNCHANGED nonGeoVars

\* compose applied to what decompose returned
ComposeTransform ==
    /\ gpc = "parsed"
    /\ gin.kind = "matrix"
    /\ gout' = ComposeItemTransform(gtr)
    /\ gpc' = "composed"
    /\ UNCHANGED <<gin, gtr, gbox>>
    /\ UNCHANGED nonGeoVars

NextGeo == ParseThrows \/ ParseTransform \/ ParseBounds \/ ComposeTransform

-----------------------------------------------------------------------------
(* Editing on the canvas: modification tracking and the auto-save timers *)

\* setTimeout(..., 2000), in seconds
Debounce == 2

\* seconds are counted up to here
MaxAge == 3

\* the objects on the canvas: a loaded rectangle, a rectangle made by
\* createNewRectangle, and two loaded text frames
Items == { "r1", "n1", "t1", "t2" }
TextItems == { "t1", "t2" }

\* the transforms an object is moved between, and the texts of a frame
Geoms == { "m0", "m1" }
Texts == { "orig", "x" }

\* the object as createRectangle, createNewRectangle or
\* IDMLTextFrame.fromIDML made it; a text frame has no data, a new
\* rectangle's data has no originalTransform
LoadedObject(i) ==
    [isText |-> i \in TextItems,
     geom |-> "m0",
     text |-> IF i \in TextItems THEN "orig" ELSE "undefined",
     hasData |-> i \notin TextItems,
     idmlId |-> IF i \in TextItems THEN "undefined" ELSE i,
     idmlType |-> IF i \in TextItems THEN "undefined" ELSE "Rectangle",
     modified |-> FALSE,
     originalTransform |-> IF i = "r1" THEN "m0" ELSE "undefined",
     ItemTransform |-> "undefined"]

\* the ActiveSelection object that is the target of a multi-selection's events
SelectionObject(g) ==
    [isText |-> FALSE, geom |-> g, text |-> "undefined", hasData |-> FALSE,
     idmlId |-> "undefined", idmlType |-> "undefined", modified |-> FALSE,
     originalTransform |-> "undefined", ItemTransform |-> "undefined"]

NoTimer == [on |-> FALSE, target |-> "none", info |-> <<>>, left |-> 0]

\* markObjectModified(obj): composeItemTransform(obj) is the object's geometry
MarkObjectModified(o) ==
    [o EXCEPT !.hasData = TRUE,
              !.modified = TRUE,
              !.originalTransform = Or(o.originalTransform, o.ItemTransform),
              !.ItemTransform = o.geom]

\* resetObjectModification(obj)
ResetObjectModification(o) ==
    [o EXCEPT !.hasData = TRUE,
              !.modified = FALSE,
              !.originalTransform = o.ItemTransform]

\* getObjectModificationInfo(obj): <<>> stands for null
GetObjectModificationInfo(o) ==
    IF ~o.hasData THEN <<>>
    ELSE << [idmlId |-> o.idmlId, idmlType |-> o.idmlType,
             currentTransform |-> o.ItemTransform, modified |-> o.modified] >>

\* IDMLTextFrame.hasChanged(): every loaded frame has its storyData
HasChanged(o) == o.text # "orig"

\* handleTextChange(e): the one saveTimeout is cleared and set again
HandleTextChange(tgt, o, timer) ==
    IF o.isText /\ HasChanged(o)
    THEN [on |-> TRUE, target |-> tgt, info |-> <<>>, left |-> Debounce]
    ELSE timer

\* handleObjectModified(e)
HandleObjectModified(tgt, o, timer) ==
    LET modInfo == GetObjectModificationInfo(o)
    IN  IF o.isText THEN timer
        ELSE IF modInfo = <<>> THEN timer
        ELSE IF ~modInfo[1].modified THEN timer
        ELSE [on |-> TRUE, target |-> tgt, info |-> modInfo, left |-> Debounce]

\* whether the edit of object i, made now, continues the burst
Continues(i) ==
    [ok |-> /\ burst.ok
            /\ burst.obj \in { "none", i }
            /\ burst.obj = i => lastEdit[i] < Debounce,
     obj |-> i]

InitEdit ==
    /\ eobjs = [i \in Items |-> LoadedObject(i)]
    /\ textTimer = NoTimer
    /\ transTimer = NoTimer
    /\ sent = <<>>
    /\ lastEdit = [i \in Items |-> -1]
    /\ hist = [i \in Items |-> [base |-> "m0", nmod |-> 0, reset |-> FALSE]]
    /\ burst = [ok |-> TRUE, obj |-> "none"]
    /\ nedits = 0

\* the user types in a text frame: 'text:changed'
EditText(i, t) ==
    /\ nedits < MaxEdits
    /\ i \in TextItems
    /\ t # eobjs[i].text
    /\ nedits' = nedits + 1
    /\ eobjs' = [eobjs EXCEPT ![i].text = t]
    /\ textTimer' = HandleTextChange(i, eobjs'[i], textTimer)
    /\ lastEdit' = [lastEdit EXCEPT ![i] = 0]
    /\ burst' = Continues(i)
    /\ UNCHANGED <<transTimer, sent, hist>>
    /\ UNCHANGED nonEditVars

\* the user moves, resizes or rotates one object: 'object:modified' runs the
\* tracking handler, handleTextChange and handleObjectModified
ModifyObject(i, g) ==
    /\ nedits < MaxEdits
    /\ g # eobjs[i].geom
    /\ nedits' = nedits + 1
    /\ eobjs' = [eobjs EXCEPT ![i] = MarkObjectModified([eobjs[i] EXCEPT !.geom = g])]
    /\ textTimer' = HandleTextChange(i, eobjs'[i], textTimer)
    /\ transTimer' = HandleObjectModified(i, eobjs'[i], transTimer)
    /\ lastEdit' = IF i \in TextItems THEN lastEdit ELSE [lastEdit EXCEPT ![i] = 0]
    /\ hist' = [hist EXCEPT ![i].nmod = IF @ < MaxEdits THEN @ + 1 ELSE @,
                            ![i].reset = FALSE]
    /\ burst' = IF i \in TextItems THEN [ok |-> FALSE, obj |-> i] ELSE Continues(i)
    /\ UNCHANGED sent
    /\ UNCHANGED nonEditVars

\* the user moves the two rectangles as one multi-selection: the event's
\* target is the ActiveSelection, the rectangles' data is not touched
ModifySelection(g) ==
    /\ nedits < MaxEdits
    /\ g # eobjs["r1"].geom
    /\ nedits' = nedits + 1
    /\ eobjs' = [eobjs EXCEPT !["r1"].geom = g, !["n1"].geom = g]
    /\ transTimer' = HandleObjectModified("selection",
                                          MarkObjectModified(SelectionObject(g)),
                                          transTimer)
    /\ lastEdit' = [lastEdit EXCEPT !["r1"] = 0, !["n1"] = 0]
    /\ hist' = [i \in Items |->
                  IF i \in { "r1", "n1" }
                  THEN [hist[i] EXCEPT !.nmod = IF @ < MaxEdits THEN @ + 1 ELSE @,
                                       !.reset = FALSE]
                  ELSE hist[i]]
    /\ burst' = [ok |-> FALSE, obj |-> "r1"]
    /\ UNCHANGED <<textTimer, sent>>
    /\ UNCHANGED nonEditVars

ResetModification(i) ==
    /\ nedits < MaxEdits
    /\ nedits' = nedits + 1
    /\ eobjs' = [eobjs EXCEPT ![i] = ResetObjectModification(eobjs[i])]
    /\ hist' = [hist EXCEPT ![i] = [base |-> eobjs[i].geom, nmod |-> 0, reset |-> TRUE]]
    /\ burst' = [ok |-> FALSE, obj |-> i]
    /\ UNCHANGED <<textTimer, transTimer, sent, lastEdit>>
    /\ UNCHANGED nonEditVars

\* the text timer fires: saveTextFrame(target) submits the frame's story with
\* the text the frame has now
SaveTextFrame ==
    /\ textTimer.on /\ textTimer.left = 0
    /\ sent' = Append(sent, [kind |-> "story", id |-> textTimer.target,
                             payload |-> eobjs[textTimer.target].text])
    /\ textTimer' = NoTimer
    /\ UNCHANGED <<eobjs, transTimer, lastEdit, hist, burst, nedits>>
    /\ UNCHANGED nonEditVars

\* the transform timer fires: saveTransform(obj, modInfo) submits the
\* modInfo taken when the timer was set
SaveTransform ==
    /\ transTimer.on /\ transTimer.left = 0
    /\ sent' = Append(sent, [kind |-> "transform", id |-> transTimer.info[1].idmlId,
                             payload |-> transTimer.info[1].currentTransform])
    /\ transTimer' = NoTimer
    /\ UNCHANGED <<eobjs, textTimer, lastEdit, hist, burst, nedits>>
    /\ UNCHANGED nonEditVars

\* a timer that is due and has not run yet
Due == \/ textTimer.on /\ textTimer.left = 0
       \/ transTimer.on /\ transTimer.left = 0

\* one second passes
Tick ==
    /\ ~Due
    /\ \/ textTimer.on
       \/ transTimer.on
       \/ \E i \in Items : lastEdit[i] >= 0 /\ lastEdit[i] < MaxAge
    /\ textTimer' = IF textTimer.on THEN [textTimer EXCEPT !.left = @ - 1] ELSE textTimer
    /\ transTimer' = IF transTimer.on THEN [transTimer EXCEPT !.left = @ - 1]
                     ELSE transTimer
    /\ lastEdit' = [i \in Items |->
                      IF lastEdit[i] >= 0 /\ lastEdit[i] < MaxAge
                      THEN lastEdit[i] + 1 ELSE lastEdit[i]]
    /\ UNCHANGED <<eobjs, sent, hist, burst, nedits>>
    /\ UNCHANGED nonEditVars

NextEdit ==
    \/ \E i \in TextItems, t \in Texts : EditText(i, t)
    \/ \E i \in Items, g \in Geoms : ModifyObject(i, g)
    \/ \E g \in Geoms : ModifySelection(g)
    \/ \E i \in Items : ResetModification(i)
    \/ SaveTextFrame
    \/ SaveTransform
    \/ Tick

-----------------------------------------------------------------------------
(* Locking: the Locked attribute at load, setObjectLocked, toggleLayerLock, *)
(* and the group handler's enableObjectControls                            *)

\* the canvas objects: a rectangle on layer ub3, a rectangle without
\* ItemLayer, a text frame, and the group groupSelectedObjects makes
LockItems == { "k1", "k2", "k3", "g1" }
LoadedLockItems == { "k1", "k2", "k3" }

\* the Locked attribute as xml2js delivers it: absent or a string
LockedAttrs == { "undefined", "'true'", "'false'" }

\* the layers of the layers panel
LayerIds == { "ub3", "layer-1" }

\* layerName.replace(/\s+/g, '-').toLowerCase()
LayerIdOf(layerName) ==
    CASE layerName = "Layer 1" -> "layer-1"
      [] layerName = "ub3" -> "ub3"
      [] OTHER -> layerName

\* layerId.replace(/-/g, ' ').replace(/\b\w/g, l => l.toUpperCase())
LayerNameOf(layerId) ==
    CASE layerId = "layer-1" -> "Layer 1"
      [] layerId = "ub3" -> "Ub3"
      [] OTHER -> layerId

\* obj.data?.layer || obj.data?.ItemLayer || 'Layer 1'
ObjLayer(o) ==
    IF o.hasData /\ o.layer # "undefined" THEN o.layer ELSE "Layer 1"

InLayer(o, layerId) ==
    \/ ObjLayer(o) = LayerNameOf(layerId)
    \/ LayerIdOf(ObjLayer(o)) = layerId

EnableObjectControls(o, options) ==
    LET No(k) == k \in DOMAIN options /\ options[k] = FALSE
        Yes(k) == k \in DOMAIN options /\ options[k] = TRUE
    IN  [o EXCEPT !.selectable = ~No("selectable"),
                  !.hasControls = ~No("hasControls"),
                  !.lockMovementX = Yes("lockMovementX"),
                  !.lockMovementY = Yes("lockMovementY"),
                  !.lockRotation = Yes("lockRotation"),
                  !.lockScalingX = Yes("lockScalingX"),
                  !.lockScalingY = Yes("lockScalingY")]

\* the options the create functions and setObjectLocked pass
LockOptions(locked) ==
    [selectable |-> ~locked, hasControls |-> ~locked,
     lockMovementX |-> locked, lockMovementY |-> locked,
     lockRotation |-> locked, lockScalingX |-> locked,
     lockScalingY |-> locked]

\* a fabric object as its constructor leaves it
FabricObject ==
    [at |-> "none", hasData |-> FALSE, locked |-> "undefined",
     layer |-> "undefined", selectable |-> TRUE, evented |-> TRUE,
     hasControls |-> TRUE, lockMovementX |-> FALSE, lockMovementY |-> FALSE,
     lockRotation |-> FALSE, lockScalingX |-> FALSE, lockScalingY |-> FALSE]

\* createRectangle: data.locked is the attribute, the controls follow
\* attrs.Locked === true
CreateLockedRectangle(Locked, ItemLayer) ==
    EnableObjectControls(
        [FabricObject EXCEPT !.at = "canvas", !.hasData = TRUE,
                             !.locked = Locked, !.layer = ItemLayer],
        LockOptions(Locked = "true"))

\* createTextFrame: createTextFrameFromIDML sets no data
CreateLockedTextFrame(Locked) ==
    EnableObjectControls([FabricObject EXCEPT !.at = "canvas"],
                         LockOptions(Locked = "true"))

IsObjectLocked(o) == o.hasData /\ o.locked \in { "true", "'true'" }

SetObjectLocked(o, locked) ==
    EnableObjectControls(
        [o EXCEPT !.hasData = TRUE,
                  !.locked = IF locked THEN "true" ELSE "false",
                  !.layer = IF o.hasData THEN o.layer ELSE "undefined"],
        LockOptions(locked))

InitLock ==
    \E a1, a2, a3 \in LockedAttrs :
        lk = [i \in LockItems |->
                CASE i = "k1" -> CreateLockedRectangle(a1, "ub3")
                  [] i = "k2" -> CreateLockedRectangle(a2, "undefined")
                  [] i = "k3" -> CreateLockedTextFrame(a3)
                  [] OTHER -> FabricObject]

RestLock == lk = [i \in LockItems |-> FabricObject]

\* a caller locks or unlocks one object
LockObject(i, locked) ==
    /\ lk[i].at # "none"
    /\ lk' = [lk EXCEPT ![i] = SetObjectLocked(lk[i], locked)]
    /\ UNCHANGED nonLockVars

\* the lock icon of a layer
ToggleLayerLock(layerId, locked) ==
    /\ lk' = [i \in LockItems |->
                IF lk[i].at = "canvas" /\ InLayer(lk[i], layerId)
                THEN [lk[i] EXCEPT
                        !.selectable = ~locked,
                        !.evented = ~locked,
                        !.locked = IF lk[i].hasData
                                   THEN (IF locked THEN "true" ELSE "false")
                                   ELSE @]
                ELSE lk[i]]
    /\ UNCHANGED nonLockVars

\* what the user can make the active selection
CanSelect(i) == lk[i].at = "canvas" /\ lk[i].selectable /\ lk[i].evented

LockGroupSelectedObjects(S) ==
    /\ Cardinality(S) >= 2
    /\ \A i \in S : CanSelect(i)
    /\ lk["g1"].at = "none"
    /\ lk' = [i \in LockItems |->
                IF i \in S THEN [lk[i] EXCEPT !.at = "group"]
                ELSE IF i = "g1"
                THEN EnableObjectControls(
                         [FabricObject EXCEPT !.at = "canvas",
                                              !.hasData = TRUE,
                                              !.locked = "false",
                                              !.layer = "Layer 1"], <<>>)
                ELSE lk[i]]
    /\ UNCHANGED nonLockVars

LockUngroupSelectedGroup ==
    /\ CanSelect("g1")
    /\ lk' = [i \in LockItems |->
                IF lk[i].at = "group"
                THEN [EnableObjectControls(lk[i], <<>>) EXCEPT !.at = "canvas"]
                ELSE IF i = "g1" THEN FabricObject
                ELSE lk[i]]
    /\ UNCHANGED nonLockVars

NextLock ==
    \/ \E i \in LockItems, b \in BOOLEAN : LockObject(i, b)
    \/ \E l \in LayerIds, b \in BOOLEAN : ToggleLayerLock(l, b)
    \/ \E S \in SUBSET LoadedLockItems : LockGroupSelectedObjects(S)
    \/ LockUngroupSelectedGroup

-----------------------------------------------------------------------------
(* cmykToRgb and rgbToHex *)

\* component values handed to cmykToRgb: the range 0..100 and beyond it
CmykValues == { -100, 0, 50, 100, 200 }

\* Math.round(n / d) for d > 0: the nearest integer, a tie goes up
Round(n, d) == (2 * n + d) \div (2 * d)

\* Math.round(255 * (1 - x / 100) * (1 - k / 100))
Channel(x, k) == Round(255 * (100 - x) * (100 - k), 10000)

CmykToRgb(c, m, y, k) == << Channel(c, k), Channel(m, k), Channel(y, k) >>

Max(a, b) == IF a > b THEN a ELSE b
Min(a, b) == IF a < b THEN a ELSE b

\* toHex: the clamped value in two hexadecimal digits
HexByte(n) ==
    LET v == Max(0, Min(255, n)) IN << v \div 16, v % 16 >>

RgbToHex(r, g, b) == HexByte(r) \o HexByte(g) \o HexByte(b)

InitColor ==
    /\ cmyk \in CmykValues \X CmykValues \X CmykValues \X CmykValues
    /\ rgb = <<>>
    /\ hexOut = <<>>
    /\ cpc = "input"

RestColor ==
    /\ cmyk = <<0, 0, 0, 0>>
    /\ rgb = <<>>
    /\ hexOut = <<>>
    /\ cpc = "input"

ConvertCmyk ==
    /\ cpc = "input"
    /\ rgb' = CmykToRgb(cmyk[1], cmyk[2], cmyk[3], cmyk[4])
    /\ cpc' = "rgb"
    /\ UNCHANGED <<cmyk, hexOut>>
    /\ UNCHANGED nonColorVars

\* cmykToRgbHex's second step
ConvertHex ==
    /\ cpc = "rgb"
    /\ hexOut' = RgbToHex(rgb[1], rgb[2], rgb[3])
    /\ cpc' = "hex"
    /\ UNCHANGED <<cmyk, rgb>>
    /\ UNCHANGED nonColorVars

NextColor == ConvertCmyk \/ ConvertHex

-----------------------------------------------------------------------------
(* The spread index between the editor loader and save-transform *)

\* what readdir can list in Spreads/, in its order
SpreadEntries == << ".DS_Store", "Spread_u1.xml", "Spread_u2.xml",
                    "Spread_u3.xml" >>
EntryNames == { SpreadEntries[n] : n \in DOMAIN SpreadEntries }

\* the entries xml2js can never parse into an idPkg:Spread
NeverParsed == { ".DS_Store" }

\* the loader: every listed file is read and parsed, a file that fails is
\* logged and left out of spreads
LoaderSpreads(spreadFiles, ok) ==
    SelectSeq(spreadFiles, LAMBDA f : ok[f])

InitIndex ==
    /\ \E S \in SUBSET EntryNames :
          /\ S # {}
          /\ sdir = SelectSeq(SpreadEntries, LAMBDA f : f \in S)
    /\ parses \in [EntryNames -> BOOLEAN]
    /\ \A f \in EntryNames :
          (f \in NeverParsed \/ \A n \in DOMAIN sdir : sdir[n] # f) => ~parses[f]
    /\ spreadsOf = <<>>
    /\ spreadIndex = 0
    /\ resolvedFile = "none"
    /\ ixpc = "start"

RestIndex ==
    /\ sdir = <<>>
    /\ parses = [f \in EntryNames |-> FALSE]
    /\ spreadsOf = <<>>
    /\ spreadIndex = 0
    /\ resolvedFile = "none"
    /\ ixpc = "start"

\* the editor route's loader and the effect that initialises the store
LoadEditor ==
    /\ ixpc = "start"
    /\ spreadsOf' = LoaderSpreads(sdir, parses)
    /\ spreadIndex' = 0
    /\ ixpc' = IF Len(spreadsOf') > 0 THEN "editing" ELSE "empty"
    /\ UNCHANGED <<sdir, parses, resolvedFile>>
    /\ UNCHANGED nonIndexVars

SetCurrentSpreadIndex(index) ==
    /\ ixpc \in { "editing", "saved" }
    /\ spreadIndex' = IF index >= 0 /\ index < Len(spreadsOf)
                      THEN index ELSE spreadIndex
    /\ ixpc' = "editing"
    /\ UNCHANGED <<sdir, parses, spreadsOf, resolvedFile>>
    /\ UNCHANGED nonIndexVars

\* saveTransform submits currentSpreadIndex; the action lists the directory
\* again and takes spreadFiles[spreadIndex]
ResolveSpreadFile ==
    /\ ixpc \in { "editing", "saved" }
    /\ resolvedFile' = IF spreadIndex + 1 \in DOMAIN sdir
                     THEN sdir[spreadIndex + 1] ELSE "404"
    /\ ixpc' = "saved"
    /\ UNCHANGED <<sdir, parses, spreadsOf, spreadIndex>>
    /\ UNCHANGED nonIndexVars

NextIndex ==
    \/ LoadEditor
    \/ \E n \in 0..Len(SpreadEntries) : SetCurrentSpreadIndex(n)
    \/ ResolveSpreadFile

-----------------------------------------------------------------------------
(* Elements created in the editor, and what reaches the files on disk *)

\* the editor operations counted
MaxPersistOps == 3

\* the toolbar's element types, and the idmlType their factory sets
ToolTypes == { "textframe", "rectangle", "line", "ellipse" }
IdmlTypeOf(type) ==
    CASE type = "textframe" -> "TextFrame"
      [] type = "rectangle" -> "Rectangle"
      [] type = "line" -> "GraphicLine"
      [] OTHER -> "Oval"

\* the ids generateUniqueID hands out, and the rectangle of the loaded spread
NewIds == { "e1", "e2" }
LoadedId == "u1"

\* the spread file as extracted
SpreadOnDisk0 == LoadedId :> [type |-> "Rectangle", ItemTransform |-> "m0"]

\* no save is pending
NoSave == [idmlId |-> "none", idmlType |-> "none", currentTransform |-> "none"]

InitPersist ==
    /\ made = [i \in {} |-> 0]
    /\ spreadOnDisk = SpreadOnDisk0
    /\ saveTimer = NoSave
    /\ inflight = <<>>
    /\ saveStatus = "none"
    /\ exported = <<>>
    /\ pops = 0

\* the canvas objects that carry IDML data: the loaded rectangle and the
\* created elements
OnCanvas == { LoadedId } \cup DOMAIN made

TypeOnCanvas(i) == IF i = LoadedId THEN "Rectangle" ELSE made[i].idmlType

\* handleCreateElement: the factory's object is added to the canvas and
\* made the active object
HandleCreateElement(type) ==
    /\ pops < MaxPersistOps
    /\ \E i \in NewIds \ DOMAIN made :
          made' = (i :> [idmlType |-> IdmlTypeOf(type), isNew |-> TRUE,
                         modified |-> FALSE, ItemTransform |-> "undefined"])
                  @@ made
    /\ pops' = pops + 1
    /\ UNCHANGED <<spreadOnDisk, saveTimer, inflight, saveStatus, exported>>
    /\ UNCHANGED nonPersistVars

\* object:modified on a canvas object: setupTransformTracking marks it, the
\* auto-save effect restarts its timer for it
ModifyOnCanvas(i, g) ==
    /\ pops < MaxPersistOps
    /\ i \in OnCanvas
    /\ made' = IF i \in DOMAIN made
               THEN [made EXCEPT ![i].modified = TRUE, ![i].ItemTransform = g]
               ELSE made
    /\ saveTimer' = [idmlId |-> i, idmlType |-> TypeOnCanvas(i),
                     currentTransform |-> g]
    /\ pops' = pops + 1
    /\ UNCHANGED <<spreadOnDisk, inflight, saveStatus, exported>>
    /\ UNCHANGED nonPersistVars

\* the timer fires: saveTransform submits the request
SubmitTransform ==
    /\ saveTimer # NoSave
    /\ inflight' = Append(inflight, [objectId |-> saveTimer.idmlId,
                                     objectType |-> saveTimer.idmlType,
                                     transform |-> saveTimer.currentTransform])
    /\ saveTimer' = NoSave
    /\ UNCHANGED <<made, spreadOnDisk, saveStatus, exported, pops>>
    /\ UNCHANGED nonPersistVars

\* the save-transform action: the object is looked up in the spread file;
\* found, its ItemTransform is set and the file written; else 404
ServeTransform ==
    /\ inflight # <<>>
    /\ LET r == Head(inflight)
           found == /\ r.objectId \in DOMAIN spreadOnDisk
                    /\ spreadOnDisk[r.objectId].type = r.objectType
       IN  /\ spreadOnDisk' =
                 IF found
                 THEN [spreadOnDisk EXCEPT ![r.objectId].ItemTransform = r.transform]
                 ELSE spreadOnDisk
           /\ saveStatus' = IF found THEN "200" ELSE "404"
    /\ inflight' = Tail(inflight)
    /\ UNCHANGED <<made, saveTimer, exported, pops>>
    /\ UNCHANGED nonPersistVars

\* the export route: packIDML zips the files on disk
ExportIdml ==
    /\ exported' = << spreadOnDisk >>
    /\ UNCHANGED <<made, spreadOnDisk, saveTimer, inflight, saveStatus, pops>>
    /\ UNCHANGED nonPersistVars

NextPersist ==
    \/ \E t \in ToolTypes : HandleCreateElement(t)
    \/ \E i \in NewIds \cup { LoadedId }, g \in { "m1", "m2" } : ModifyOnCanvas(i, g)
    \/ SubmitTransform
    \/ ServeTransform
    \/ ExportIdml

\* the timer fires, requests are served, and the user exports again and again
FairPersist ==
    /\ WF_vars(SubmitTransform)
    /\ WF_vars(ServeTransform)
    /\ SF_vars(ExportIdml /\ exported' # exported)

-----------------------------------------------------------------------------
(* save-transform: finding the object in the spread *)

\* the requests served one after the other
MaxFindReqs == 2

\* the spread file: each element's type and parent, in document order.  r1
\* is on the spread, r2 on the page, r3 and t1 in a group, g2 / r4 a group on
\* the page and its rectangle, g3 / r5 a group in a group and its rectangle
DocumentOrder == << "p1", "r1", "g1", "r2", "g2", "r4", "r3", "t1", "g3", "r5" >>
SpreadNodes == { DocumentOrder[n] : n \in DOMAIN DocumentOrder }

TypeOf(i) ==
    CASE i = "p1" -> "Page"
      [] i \in { "g1", "g2", "g3" } -> "Group"
      [] i = "t1" -> "TextFrame"
      [] OTHER -> "Rectangle"

ParentOf(i) ==
    CASE i \in { "p1", "r1", "g1" } -> "Spread"
      [] i \in { "r2", "g2" } -> "p1"
      [] i = "r4" -> "g2"
      [] i \in { "r3", "t1", "g3" } -> "g1"
      [] OTHER -> "g3"

\* parent[typeName] as xml2js builds it: the children of that element name
ChildArray(parent, typeName) ==
    SelectSeq(DocumentOrder,
              LAMBDA i : ParentOf(i) = parent /\ TypeOf(i) = typeName)

ObjectTypes == { "TextFrame", "Rectangle", "Group" }

\* updateObjectInArray: the first element of the array whose Self is
\* objectId, "none" if the array has none
UpdateObjectInArray(array, objectId) ==
    IF \E n \in DOMAIN array : array[n] = objectId THEN objectId ELSE "none"

\* the three searches of the action, each only while nothing was found
FindObject(objectId, objectType) ==
    LET direct == UpdateObjectInArray(ChildArray("Spread", objectType), objectId)
        pages == ChildArray("Spread", "Page")
        groups == ChildArray("Spread", "Group")
        inPages == { UpdateObjectInArray(ChildArray(pages[n], objectType), objectId) :
                       n \in DOMAIN pages } \ { "none" }
        inGroups == { UpdateObjectInArray(ChildArray(groups[n], objectType), objectId) :
                       n \in DOMAIN groups } \ { "none" }
    IN  IF direct # "none" THEN direct
        ELSE IF inPages # {} THEN objectId
        ELSE IF inGroups # {} THEN objectId
        ELSE "none"

NoFindReq == [objectId |-> "none", objectType |-> "none", transform |-> "none"]

NoFindResp == [status |-> "none", objectId |-> "none", objectType |-> "none",
               transform |-> "none"]

InitFind ==
    /\ itemTransform = [i \in SpreadNodes |-> "m0"]
    /\ findReq = NoFindReq
    /\ findResp = NoFindResp
    /\ nfind = 0

\* a save-transform request arrives
ReceiveFind(objectId, objectType, transform) ==
    /\ findReq = NoFindReq
    /\ nfind < MaxFindReqs
    /\ findReq' = [objectId |-> objectId, objectType |-> objectType,
                   transform |-> transform]
    /\ findResp' = NoFindResp
    /\ nfind' = nfind + 1
    /\ UNCHANGED itemTransform
    /\ UNCHANGED nonFindVars

\* the action searches the parsed spread, sets ItemTransform and writes the
\* file, or answers 404
ServeFind ==
    /\ findReq # NoFindReq
    /\ LET hit == FindObject(findReq.objectId, findReq.objectType)
       IN  /\ itemTransform' = IF hit # "none"
                               THEN [itemTransform EXCEPT ![hit] = findReq.transform]
                               ELSE itemTransform
           /\ findResp' = [status |-> IF hit # "none" THEN "200" ELSE "404",
                           objectId |-> findReq.objectId,
                           objectType |-> findReq.objectType,
                           transform |-> findReq.transform]
    /\ findReq' = NoFindReq
    /\ UNCHANGED nfind
    /\ UNCHANGED nonFindVars

NextFind ==
    \/ \E i \in SpreadNodes \ { "p1" }, t \in ObjectTypes, g \in { "m1", "m2" } :
          ReceiveFind(i, t, g)
    \/ ServeFind

-----------------------------------------------------------------------------
(* The file a save request writes: path.join over the request's fields *)

\* the longest storyId, in path segments
MaxSegs == 4

\* the uploads on the server, and the entries of their Spreads directory
UploadIds == { "a", "b" }
SpreadListing == << "Spread_u1.xml", "Spread_u2.xml" >>

\* the segments a storyId can be made of, split at "/"
IdSegments == { "..", "u1", "x" }
StoryIdValues == UNION { [1..n -> IdSegments] : n \in 1..MaxSegs }

\* `Story_${storyId}.xml` split at "/": the first segment carries the prefix
\* and the last one the suffix, so neither of them is ".." any more
StoryFileSegments(storyId) ==
    [n \in 1..Len(storyId) |->
        [name |-> storyId[n], prefix |-> n = 1, suffix |-> n = Len(storyId)]]

Plain(name) == [name |-> name, prefix |-> FALSE, suffix |-> FALSE]

IsDotDot(seg) == seg.name = ".." /\ ~seg.prefix /\ ~seg.suffix

\* path.join: the segments in a row, normalised: ".." removes the segment
\* before it
RECURSIVE PathNormalize(_, _)
PathNormalize(done, segs) ==
    IF segs = <<>> THEN done
    ELSE IF IsDotDot(Head(segs))
         THEN PathNormalize(IF done = <<>> THEN <<>>
                            ELSE SubSeq(done, 1, Len(done) - 1), Tail(segs))
         ELSE PathNormalize(Append(done, Head(segs)), Tail(segs))

PathJoin(segs) == PathNormalize(<<>>, segs)

\* path.join(process.cwd(), 'uploads', uploadId, 'extracted', dir), relative
\* to process.cwd()
ExtractedSubdir(uploadId, dir) ==
    PathJoin(<< Plain("uploads"), Plain(uploadId), Plain("extracted"), Plain(dir) >>)

\* the directories that exist under process.cwd()
ExistingDirs ==
    { <<>>, << Plain("uploads") >> }
      \cup { << Plain("uploads"), Plain(u) >> : u \in UploadIds }
      \cup { << Plain("uploads"), Plain(u), Plain("extracted") >> : u \in UploadIds }
      \cup { ExtractedSubdir(u, d) : u \in UploadIds, d \in { "Stories", "Spreads" } }

NoPath == << Plain("none") >>

\* writeFile creates or rewrites the file when its directory exists
WriteTarget(filePath) ==
    IF filePath # <<>> /\ SubSeq(filePath, 1, Len(filePath) - 1) \in ExistingDirs
    THEN filePath ELSE NoPath

InitPath ==
    /\ saveReq = [kind |-> "none", uploadId |-> "none", storyId |-> <<>>,
                  spreadIndex |-> 0]
    /\ writtenPath = NoPath

\* save-story: Stories/Story_<storyId>.xml is written
SaveStoryPath(uploadId, storyId) ==
    /\ saveReq' = [kind |-> "story", uploadId |-> uploadId, storyId |-> storyId,
                   spreadIndex |-> 0]
    /\ writtenPath' =
          WriteTarget(PathJoin(ExtractedSubdir(uploadId, "Stories")
                                 \o StoryFileSegments(storyId)))
    /\ UNCHANGED nonPathVars

\* save-transform: spreadFiles[spreadIndex] of Spreads/ is rewritten; an
\* index without an entry is answered 404
SaveTransformPath(uploadId, index) ==
    /\ saveReq' = [kind |-> "transform", uploadId |-> uploadId, storyId |-> <<>>,
                   spreadIndex |-> index]
    /\ writtenPath' =
          IF index + 1 \in DOMAIN SpreadListing
          THEN WriteTarget(PathJoin(ExtractedSubdir(uploadId, "Spreads")
                                      \o << Plain(SpreadListing[index + 1]) >>))
          ELSE NoPath
    /\ UNCHANGED nonPathVars

NextPath ==
    \/ \E u \in UploadIds, s \in StoryIdValues : SaveStoryPath(u, s)
    \/ \E u \in UploadIds, n \in -1..Len(SpreadListing) : SaveTransformPath(u, n)

\* whether the path lies inside the directory
InsideDir(filePath, dir) ==
    /\ Len(filePath) > Len(dir)
    /\ SubSeq(filePath, 1, Len(dir)) = dir

-----------------------------------------------------------------------------
(* The editor store: spreads, currentSpreadIndex and the undo history *)

\* initialState.maxHistorySize
maxHistorySize == 50

\* the store operations explored when they are counted
MaxStoreOps == 5

\* the spreads a loader run can hand to setSpreads
SpreadsValues == { << "a", "b" >>, << "c" >> }

\* JSON.parse(JSON.stringify(spreads)): a new array of the same spreads
JsonClone(spreads) == [n \in DOMAIN spreads |-> spreads[n]]

initialState ==
    [spreads |-> <<>>, currentSpreadIndex |-> 0, history |-> <<>>,
     historyIndex |-> -1, maxHistorySize |-> maxHistorySize]

\* addHistoryEntry without the slice: entries after the current index stay
AddHistoryEntryKeepAll(s) ==
    LET entry == [spreads |-> JsonClone(s.spreads),
                  currentSpreadIndex |-> s.currentSpreadIndex]
        pushed == Append(s.history, entry)
        newHistory == IF Len(pushed) > s.maxHistorySize THEN Tail(pushed)
                      ELSE pushed
    IN  [s EXCEPT !.history = newHistory,
                  !.historyIndex = Len(newHistory) - 1]

\* historyIndex counts from 0, history[n] of the code is history[n + 1] here
AddHistoryEntry(s) ==
    LET entry == [spreads |-> JsonClone(s.spreads),
                  currentSpreadIndex |-> s.currentSpreadIndex]
        pushed == Append(SubSeq(s.history, 1, s.historyIndex + 1), entry)
        newHistory == IF Len(pushed) > s.maxHistorySize THEN Tail(pushed)
                      ELSE pushed
    IN  [s EXCEPT !.history = newHistory,
                  !.historyIndex = Len(newHistory) - 1]

SetSpreads(s, spreads) ==
    AddHistoryEntry([s EXCEPT !.spreads = spreads, !.currentSpreadIndex = 0])

SetIndex(s, index) ==
    IF index >= 0 /\ index < Len(s.spreads)
    THEN [s EXCEPT !.currentSpreadIndex = index]
    ELSE s

CanUndo(s) == s.historyIndex > 0

CanRedo(s) == s.historyIndex < Len(s.history) - 1

Undo(s) ==
    IF s.historyIndex > 0
    THEN LET newIndex == s.historyIndex - 1
             entry == s.history[newIndex + 1]
         IN  [s EXCEPT !.spreads = JsonClone(entry.spreads),
                       !.currentSpreadIndex = entry.currentSpreadIndex,
                       !.historyIndex = newIndex]
    ELSE s

Redo(s) ==
    IF s.historyIndex < Len(s.history) - 1
    THEN LET newIndex == s.historyIndex + 1
             entry == s.history[newIndex + 1]
         IN  [s EXCEPT !.spreads = JsonClone(entry.spreads),
                       !.currentSpreadIndex = entry.currentSpreadIndex,
                       !.historyIndex = newIndex]
    ELSE s

\* a store with counted operations and every loader result
InitStore ==
    /\ store = initialState
    /\ loads = SpreadsValues
    /\ budget = MaxStoreOps
    /\ dropped = [oldest |-> FALSE, redo |-> FALSE]

\* a store used without end on one document
InitStoreLong ==
    /\ store = initialState
    /\ loads = { << "c" >> }
    /\ budget = -1
    /\ dropped = [oldest |-> FALSE, redo |-> FALSE]

RestStore ==
    /\ store = initialState
    /\ loads = {}
    /\ budget = 0
    /\ dropped = [oldest |-> FALSE, redo |-> FALSE]

\* one more operation: counted while a budget is set
Spend ==
    /\ budget # 0
    /\ budget' = IF budget > 0 THEN budget - 1 ELSE budget
    /\ UNCHANGED loads

\* what the addHistoryEntry call of this step removed from the history
Dropped(s) ==
    [oldest |-> dropped.oldest \/ s.historyIndex + 1 = s.maxHistorySize,
     redo |-> dropped.redo \/ s.historyIndex < Len(s.history) - 1]

StoreSetSpreads(spreads) ==
    /\ spreads \in loads
    /\ Spend
    /\ store' = SetSpreads(store, spreads)
    /\ dropped' = Dropped(store)
    /\ UNCHANGED nonStoreVars

StoreSetCurrentSpreadIndex(index) ==
    /\ Spend
    /\ store' = SetIndex(store, index)
    /\ UNCHANGED dropped
    /\ UNCHANGED nonStoreVars

StoreAddHistoryEntry ==
    /\ Spend
    /\ store' = AddHistoryEntry(store)
    /\ dropped' = Dropped(store)
    /\ UNCHANGED nonStoreVars

StoreUndo ==
    /\ Spend
    /\ store' = Undo(store)
    /\ UNCHANGED dropped
    /\ UNCHANGED nonStoreVars

StoreRedo ==
    /\ Spend
    /\ store' = Redo(store)
    /\ UNCHANGED dropped
    /\ UNCHANGED nonStoreVars

NextStore ==
    \/ \E s \in SpreadsValues : StoreSetSpreads(s)
    \/ \E n \in -1..2 : StoreSetCurrentSpreadIndex(n)
    \/ StoreAddHistoryEntry
    \/ StoreUndo
    \/ StoreRedo

-----------------------------------------------------------------------------
(* SpreadCache *)

\* constructor(maxSize: number = 3)
DefaultMaxSize == 3

\* the cache operations explored
MaxCacheOps == 5

\* the spread ids used as keys; "" is the empty string
SpreadIds == { "", "s1", "s2", "s3" }

\* accessOrder.filter(id => id !== spreadId)
Without(order, spreadId) == SelectSeq(order, LAMBDA id : id # spreadId)

\* if (lru): undefined and the empty string are falsy
Truthy(id) == id # "undefined" /\ id # ""

\* accessOrder.shift(): the removed element, undefined for an empty array
Shifted(order) == IF order = <<>> THEN "undefined" ELSE Head(order)

InitCache ==
    /\ cache = {}
    /\ accessOrder = <<>>
    /\ maxSize = DefaultMaxSize
    /\ recent = <<>>
    /\ cop = [op |-> "new", id |-> "undefined", hit |-> FALSE]
    /\ ncache = 0

CacheGet(spreadId) ==
    /\ ncache < MaxCacheOps
    /\ accessOrder' = IF spreadId \in cache
                      THEN Append(Without(accessOrder, spreadId), spreadId)
                      ELSE accessOrder
    /\ recent' = IF spreadId \in cache
                 THEN Append(Without(recent, spreadId), spreadId)
                 ELSE recent
    /\ cop' = [op |-> "get", id |-> spreadId, hit |-> spreadId \in cache]
    /\ ncache' = ncache + 1
    /\ UNCHANGED <<cache, maxSize>>
    /\ UNCHANGED nonCacheVars

CacheSet(spreadId) ==
    /\ ncache < MaxCacheOps
    /\ IF spreadId \in cache
       THEN /\ accessOrder' = Append(Without(accessOrder, spreadId), spreadId)
            /\ cache' = cache
       ELSE LET full == Cardinality(cache) >= maxSize
                lru == IF full THEN Shifted(accessOrder) ELSE "undefined"
                order == IF full /\ accessOrder # <<>> THEN Tail(accessOrder)
                         ELSE accessOrder
                kept == IF full /\ Truthy(lru) THEN cache \ { lru } ELSE cache
            IN  /\ cache' = kept \cup { spreadId }
                /\ accessOrder' = Append(order, spreadId)
    /\ recent' =
          LET full == spreadId \notin cache /\ Cardinality(cache) >= maxSize
              rest == IF full /\ recent # <<>> THEN Tail(recent) ELSE recent
          IN  Append(Without(rest, spreadId), spreadId)
    /\ cop' = [op |-> "set", id |-> spreadId, hit |-> spreadId \in cache]
    /\ ncache' = ncache + 1
    /\ UNCHANGED maxSize
    /\ UNCHANGED nonCacheVars

CacheRemove(spreadId) ==
    /\ ncache < MaxCacheOps
    /\ cache' = cache \ { spreadId }
    /\ accessOrder' = Without(accessOrder, spreadId)
    /\ recent' = Without(recent, spreadId)
    /\ cop' = [op |-> "remove", id |-> spreadId, hit |-> spreadId \in cache]
    /\ ncache' = ncache + 1
    /\ UNCHANGED maxSize
    /\ UNCHANGED nonCacheVars

CacheClear ==
    /\ ncache < MaxCacheOps
    /\ cache' = {}
    /\ accessOrder' = <<>>
    /\ recent' = <<>>
    /\ cop' = [op |-> "clear", id |-> "undefined", hit |-> FALSE]
    /\ ncache' = ncache + 1
    /\ UNCHANGED maxSize
    /\ UNCHANGED nonCacheVars

NextCache ==
    \/ \E i \in SpreadIds : CacheGet(i)
    \/ \E i \in SpreadIds : CacheSet(i)
    \/ \E i \in SpreadIds : CacheRemove(i)
    \/ CacheClear

-----------------------------------------------------------------------------
\* The parts of the program are independent of each other: each
\* specification starts one part in its initial states and leaves the other
\* parts at rest.
RestFS ==
    /\ dirs = DirPaths
    /\ files = [p \in FilePaths |-> NoFile]
    /\ pc = [p \in Procs |-> "idle"]
    /\ req = [p \in Procs |-> [kind |-> "none"]]
    /\ target = [p \in Procs |-> <<>>]
    /\ buf = [p \in Procs |-> NoFile]
    /\ resp = [p \in Procs |-> "none"]
    /\ nreq = 0
    /\ obs = NoFile

RestCanvas == canvas = <<>> /\ created = 0

RestIds == idSet = {} /\ lastId = <<>> /\ genCount = 0

RestStory ==
    /\ story = [id |-> "u1", paragraphs |-> <<>>]
    /\ newText = <<>>
    /\ withStyles = FALSE
    /\ updated = [id |-> "u1", paragraphs |-> <<>>]
    /\ stpc = "parsed"

RestRound ==
    /\ doc = <<>>
    /\ rcanvas = <<>>
    /\ elements = <<>>
    /\ outSpread = SerializeSpreadToXML(<<>>)
    /\ rtpc = "source"

RestGeo ==
    /\ gin = [kind |-> "matrix", defined |-> FALSE, values |-> <<>>]
    /\ gtr = IdentityTransform
    /\ gbox = NoBox
    /\ gout = <<>>
    /\ gpc = "input"

RestMore == RestRound /\ RestGeo /\ InitEdit

\* -- further parts: at rest
RestLast ==
    /\ RestLock
    /\ RestColor
    /\ RestIndex
    /\ InitPersist
    /\ InitFind
    /\ InitPath
    /\ RestStore
    /\ InitCache
\* -- end of at rest

\* concurrent save requests on one upload's tree
StartFS == InitFS /\ InitPack /\ RestCanvas /\ RestIds /\ RestStory /\ RestMore /\ RestLast

SpecFS == StartFS /\ [][NextFS]_vars

\* one export of one upload's tree
SpecPack == StartFS /\ [][NextPack]_vars

\* the editor's element and group operations on a loaded spread
StartCanvas == RestFS /\ InitPack /\ InitCanvas /\ RestIds /\ RestStory /\ RestMore /\ RestLast

SpecCanvas == StartCanvas /\ [][NextCanvas]_vars

\* ids generated in succession against a set
StartIds == RestFS /\ InitPack /\ RestCanvas /\ InitIds /\ RestStory /\ RestMore /\ RestLast

SpecIds == StartIds /\ [][NextIds]_vars

\* one text update of a parsed story
StartStory == RestFS /\ InitPack /\ RestCanvas /\ RestIds /\ InitStory /\ RestMore /\ RestLast

SpecStory == StartStory /\ [][NextStory]_vars

RestFirst == RestFS /\ InitPack /\ RestCanvas /\ RestIds /\ RestStory

\* one spread loaded on the canvas and serialized again
StartRound == RestFirst /\ InitRound /\ RestGeo /\ InitEdit /\ RestLast

SpecRound == StartRound /\ [][NextRound]_vars

\* one attribute value through the codec
StartGeo == RestFirst /\ RestRound /\ InitGeo /\ InitEdit /\ RestLast

SpecGeo == StartGeo /\ [][NextGeo]_vars

\* an editing session on a loaded spread
StartEdit == RestFirst /\ RestMore /\ RestLast

SpecEdit == StartEdit /\ [][NextEdit]_vars
\* -- further parts: specifications
RestEarlier == RestFirst /\ RestMore

\* a loaded spread under lock, unlock, layer lock, group and ungroup
StartLock ==
    /\ RestEarlier
    /\ InitLock
    /\ RestColor
    /\ RestIndex
    /\ InitPersist
    /\ InitFind
    /\ InitPath
    /\ RestStore
    /\ InitCache

SpecLock == StartLock /\ [][NextLock]_vars

\* one colour through cmykToRgbHex
StartColor ==
    /\ RestEarlier
    /\ RestLock
    /\ InitColor
    /\ RestIndex
    /\ InitPersist
    /\ InitFind
    /\ InitPath
    /\ RestStore
    /\ InitCache

SpecColor == StartColor /\ [][NextColor]_vars

\* the editor is loaded, spreads are displayed and their transforms saved
StartIndex ==
    /\ RestEarlier
    /\ RestLock
    /\ RestColor
    /\ InitIndex
    /\ InitPersist
    /\ InitFind
    /\ InitPath
    /\ RestStore
    /\ InitCache

SpecIndex == StartIndex /\ [][NextIndex]_vars

\* elements are created and moved, auto-save and export run
StartPersist ==
    /\ RestEarlier
    /\ RestLock
    /\ RestColor
    /\ RestIndex
    /\ InitPersist
    /\ InitFind
    /\ InitPath
    /\ RestStore
    /\ InitCache

SpecPersist == StartPersist /\ [][NextPersist]_vars

\* save-transform requests for the objects of one spread
StartFind ==
    /\ RestEarlier
    /\ RestLock
    /\ RestColor
    /\ RestIndex
    /\ InitPersist
    /\ InitFind
    /\ InitPath
    /\ RestStore
    /\ InitCache

SpecFind == StartFind /\ [][NextFind]_vars

\* save requests with arbitrary ids
StartPath ==
    /\ RestEarlier
    /\ RestLock
    /\ RestColor
    /\ RestIndex
    /\ InitPersist
    /\ InitFind
    /\ InitPath
    /\ RestStore
    /\ InitCache

SpecPath == StartPath /\ [][NextPath]_vars

\* the store under setSpreads, setCurrentSpreadIndex, addHistoryEntry, undo and redo
StartStore ==
    /\ RestEarlier
    /\ RestLock
    /\ RestColor
    /\ RestIndex
    /\ InitPersist
    /\ InitFind
    /\ InitPath
    /\ InitStore
    /\ InitCache

SpecStore == StartStore /\ [][NextStore]_vars

\* one SpreadCache under get, set, remove and clear
StartCache ==
    /\ RestEarlier
    /\ RestLock
    /\ RestColor
    /\ RestIndex
    /\ InitPersist
    /\ InitFind
    /\ InitPath
    /\ RestStore
    /\ InitCache

SpecCache == StartCache /\ [][NextCache]_vars
\* -- end of specifications

\* the store of one document, used until the history is full and beyond
StartStoreLong ==
    /\ RestEarlier
    /\ RestLock
    /\ RestColor
    /\ RestIndex
    /\ InitPersist
    /\ InitFind
    /\ InitPath
    /\ InitStoreLong
    /\ InitCache

SpecStoreLong == StartStoreLong /\ [][NextStore]_vars

\* the same with the timers, the server and the exports taking their turn
SpecPersistLive == SpecPersist /\ FairPersist


-----------------------------------------------------------------------------
(* The claims *)

\* C1: when two save-transform requests for different objects of the same
\* spread file have both been answered 200, the file reflects both of them:
\* no update is lost, however the two requests overlap.
C1_NoLostUpdate ==
    \A p \in Procs, q \in Procs :
        ( /\ p # q
          /\ pc[p] = "idle" /\ pc[q] = "idle"
          /\ resp[p] = "200" /\ resp[q] = "200"
          /\ req[p].kind = "transform" /\ req[q].kind = "transform"
          /\ target[p] = target[q]
          /\ req[p].oid # req[q].oid )
        => /\ files[target[p]].tag = "spread"
           /\ files[target[p]].tr[req[p].oid] = req[p].tr
           /\ files[target[p]].tr[req[q].oid] = req[q].tr

\* C2: a read of a file that runs concurrently with saves gets a complete
\* content of the file (the one before or the one after a save), never an
\* empty or partially written file.
C2_ReadsSeeCompleteFiles == obs.tag \notin { "truncated", "spliced" }

\* C3: a save-transform request whose object id does not occur in the
\* spread file it resolved is answered 404 and never gets to write the file.
C3_MissingObjectIs404 ==
    \A p \in Procs :
        ( /\ req[p].kind = "transform"
          /\ target[p] # <<>>
          /\ req[p].oid \notin IdsOf(target[p]) )
        => /\ pc[p] \notin { "open", "write" }
           /\ resp[p] \in { "none", "404" }

\* C4: a step of a save changes no file but the one the save targets, and
\* no file that did not exist appears.
C4_OnlyTargetNoNewFile ==
    [][ \A f \in FilePaths :
          files'[f] # files[f]
          => /\ files[f] # NoFile
             /\ \E p \in Procs : target[p] = f /\ pc[p] \in { "open", "write" }
      ]_vars

\* C5: the archive packIDML returns holds every file of the extracted tree,
\* at its relative path and with its content.
C5_EveryFilePacked ==
    (zpc = "done" /\ zreq.mode = "pack")
    => \A f \in FilePaths :
          files[f] # NoFile
          => \E i \in 1..Len(zout) :
                zout[i].name = f /\ zout[i].content = files[f]

\* C6: the first entry of every generated archive is mimetype, stored with
\* no compression.
C6_MimetypeFirstStored ==
    zpc = "done"
    => /\ Len(zout) >= 1
       /\ zout[1].name = MimetypePath
       /\ zout[1].method = "STORE"

\* C6 witness: packIDML has packed a tree that has a mimetype file and files
\* in several directories; packIDMLWithSpread has packed one.
C6_Witness ==
    /\ zpc = "done"
    /\ zreq.mode = "pack"
    /\ files[MimetypePath] # NoFile
    /\ zout[1].content = files[MimetypePath]
    /\ Len(zout) >= 8

\* C7: an archive is returned only for a tree that has mimetype and every
\* required top-level directory (for a broken package the export fails).
C7_BrokenPackageFails ==
    zpc = "done" => ValidateIDMLStructure(files, dirs).valid

\* C8: no two page items on the canvas, nested ones included, have the same
\* id, after any sequence of create, group and ungroup operations.
C8_UniqueIds ==
    LET ids == ItemIds(canvas)
    IN  \A i \in 1..Len(ids), j \in 1..Len(ids) : i # j => ids[i] # ids[j]

MatchesPattern(id) ==
    /\ Len(id) \in { 4, 5 }
    /\ id[1] = "u"
    /\ \A i \in 2..Len(id) : \E k \in 1..16 : id[i] = HexChars[k]

\* C9: every id generated against the set (and then added to it) was not in
\* the set when it was generated, and matches u[0-9a-f]{3,4}.
C9_FreshAndWellFormed ==
    [][ genCount' # genCount
        => lastId' \notin idSet /\ MatchesPattern(lastId') ]_vars

\* C9 witness: two ids have been generated in succession against a set that
\* was pre-populated, the second of four hex digits.
C9_Witness ==
    /\ genCount = 2
    /\ Cardinality(idSet) >= 5
    /\ lastId \in idSet
    /\ Len(lastId) = 5

\* C10: updating a story from its own plain text leaves its paragraphs, their
\* ranges and every range's content as they were.
C10_NoOpEditIsNoOp ==
    (stpc = "updated" /\ newText = StoryToPlainText(story))
    => updated.paragraphs = story.paragraphs

\* C11: for each paragraph slot of the edited text that has an original
\* paragraph, the updated paragraph has the original's character ranges (same
\* number, order and style attributes), the first holding the slot's text and
\* every later one its original content.
C11_KeepsRangesReplacesFirst ==
    stpc = "updated"
    => \A i \in 1..Len(updated.paragraphs) :
          i <= Len(story.paragraphs)
          => LET orig == story.paragraphs[i].characterRanges
                 new  == updated.paragraphs[i].characterRanges
             IN  /\ Len(new) = Len(orig)
                 /\ \A j \in 1..Len(orig) :
                       new[j] = [orig[j] EXCEPT !.content =
                                    IF j = 1 THEN Split(newText)[i]
                                    ELSE orig[j].content]

\* C12: an attribute of a page item that the typed schema does not know
\* (CustomVendorAttr="xyz") is on the serialized element of the same type and
\* id, with its value unchanged.
C12_UnknownAttributeSurvives ==
    rtpc = "serialized"
    => \A i \in 1..Len(doc) :
          "CustomVendorAttr" \in DOMAIN doc[i].attributes
          => \E k \in 1..Len(outSpread[doc[i].type]) :
                /\ Get(outSpread[doc[i].type][k], "Self") = doc[i].attributes["Self"]
                /\ Get(outSpread[doc[i].type][k], "CustomVendorAttr")
                      = doc[i].attributes["CustomVendorAttr"]

\* position of the page item with this id in the source spread
SourcePos(id) == CHOOSE k \in 1..Len(doc) : doc[k].attributes["Self"] = id

C14_DecomposeComposeRoundTrip ==
    (gpc = "composed" /\ gin.values \in WellFormedMatrices)
    => /\ \A i \in 1..6 :
             /\ gout[i] - gin.values[i] <= 1
             /\ gin.values[i] - gout[i] <= 1
       /\ gin.values = <<Unit, 0, 0, Unit, 0, 0>>
             => gout = <<Unit, 0, 0, Unit, 0, 0>>

\* C15: a matrix string without exactly 6 values, or with a value that is
\* no number, parses to the identity transform, and a malformed bounds
\* string to the 100 x 100 box at the origin.
C15_MalformedGeometryFailsSoft ==
    (gpc = "parsed" /\ gin.defined)
    => /\ (gin.kind = "matrix" /\ gin.values \in MalformedMatrices)
             => /\ gtr.scaleX = Unit /\ gtr.scaleY = Unit
                /\ gtr.angle = 0 /\ gtr.left = 0 /\ gtr.top = 0
       /\ (gin.kind = "bounds" /\ gin.values \in MalformedBounds)
             => gbox = [top |-> 0, left |-> 0,
                        width |-> 100 * Unit, height |-> 100 * Unit]

\* what the save a handler serves writes when nothing else runs
SavedAlone(p) ==
    IF req[p].kind = "story" THEN StoryXml(req[p].data)
    ELSE SpreadXml([InitialContent(target[p]).tr EXCEPT ![req[p].oid] = req[p].tr])

\* C19: when two saves that target different files have both been answered
\* 200, each file holds what its own save writes when it runs alone,
\* however the steps of the two were interleaved.
C19_DifferentFilesIndependent ==
    ( /\ nreq = 2
      /\ \A p \in Procs : pc[p] = "idle" /\ resp[p] = "200" /\ req[p].kind # "none"
      /\ target["p1"] # target["p2"] )
    => \A p \in Procs : files[target[p]] = SavedAlone(p)

\* C19 witness: a transform save of one spread and a transform save of
\* another, and a spread save next to a story save, have both completed.
C19_Witness ==
    /\ nreq = 2
    /\ \A p \in Procs : pc[p] = "idle" /\ resp[p] = "200"
    /\ target["p1"] = Spread1
    /\ target["p2"] \in { Spread2, Story1 }
    /\ files[target["p1"]] = SavedAlone("p1")

\* C16: for every text frame whose text was edited, when 2 seconds have
\* passed since its last edit (and the timer due then has run) a save-story
\* request with the frame's latest text has been submitted.
C16_TextAutoSaved ==
    \A i \in TextItems :
        (lastEdit[i] >= Debounce /\ ~Due)
        => \E k \in 1..Len(sent) :
              sent[k] = [kind |-> "story", id |-> i, payload |-> eobjs[i].text]

\* C17: for every object that is no text frame and was moved, resized or
\* rotated, when 2 seconds have passed since its last modification (and the
\* timer due then has run) a save-transform request with the object's id
\* and latest transform has been submitted.
C17_TransformAutoSaved ==
    \A i \in Items \ TextItems :
        (lastEdit[i] >= Debounce /\ ~Due)
        => \E k \in 1..Len(sent) :
              sent[k] = [kind |-> "transform", id |-> i, payload |-> eobjs[i].geom]

\* C18: while all edits so far are one burst on one object (consecutive
\* edits less than 2 seconds apart), nothing is submitted before 2 seconds
\* have passed since the last edit, and after that exactly one request has
\* been submitted, which carries the object's final state.
C18_BurstSavedOnce ==
    (burst.ok /\ burst.obj # "none")
    => LET i == burst.obj
       IN  /\ lastEdit[i] < Debounce => sent = <<>>
           /\ (lastEdit[i] >= Debounce /\ ~Due)
                 => /\ Len(sent) = 1
                    /\ sent[1].id = i
                    /\ sent[1].payload =
                          IF i \in TextItems THEN eobjs[i].text ELSE eobjs[i].geom

\* C20: an object modified at least once since load (or since its last
\* reset) has modified = true, the transform it had at load (or at that
\* reset) as originalTransform, and its current transform as ItemTransform;
\* right after a reset modified is false and originalTransform is the
\* ItemTransform.
C20_ModificationSnapshot ==
    \A i \in Items :
        /\ hist[i].nmod >= 1
              => /\ eobjs[i].modified
                 /\ eobjs[i].originalTransform = hist[i].base
                 /\ eobjs[i].ItemTransform = eobjs[i].geom
        /\ hist[i].reset
              => /\ ~eobjs[i].modified
                 /\ eobjs[i].originalTransform = eobjs[i].ItemTransform

\* C21: an object on the canvas whose locked flag is true is not selectable
\* and cannot be moved, rotated or scaled, whatever lock, unlock,
\* layer-lock, group and ungroup operations came before.
C21_LockedNotEditable ==
    \A i \in LockItems :
        (lk[i].at = "canvas" /\ IsObjectLocked(lk[i])) =>
            /\ ~lk[i].selectable
            /\ \/ ~lk[i].evented
               \/ /\ lk[i].lockMovementX /\ lk[i].lockMovementY
                  /\ lk[i].lockRotation
                  /\ lk[i].lockScalingX /\ lk[i].lockScalingY

\* C22: cmykToRgb(0,0,0,0) is (255,255,255), cmykToRgb(0,0,0,100) is
\* (0,0,0), and every component of cmykToRgb's result lies in 0..255 for
\* all inputs, those outside 0..100 included.
C22_CmykToRgbInRange ==
    cpc # "input" =>
        /\ cmyk = <<0, 0, 0, 0>> => rgb = <<255, 255, 255>>
        /\ cmyk = <<0, 0, 0, 100>> => rgb = <<0, 0, 0>>
        /\ \A n \in 1..3 : rgb[n] >= 0 /\ rgb[n] <= 255

\* C23: the spread index sent with a save-transform request resolves on the
\* server to the spread file from which the spread displayed at that index
\* was loaded, also when a file was skipped at load or the directory holds
\* other entries.
C23_IndexResolvesToLoadedFile ==
    (ixpc = "saved" /\ resolvedFile # "none") =>
        resolvedFile = spreadsOf[spreadIndex + 1]

\* C24: an element created in the editor that is on the canvas is
\* eventually in the spread file on disk, and so in a later export.
C24_CreatedElementReachesDisk ==
    \A i \in NewIds :
        (i \in DOMAIN made) ~> (i \in DOMAIN spreadOnDisk)

\* C25: a save-transform request for an object of the spread file, wherever
\* it is nested, whose objectType is the object's element type finds the
\* object and sets its ItemTransform.
C25_NestedObjectFound ==
    (findResp # NoFindResp /\ findReq = NoFindReq
       /\ TypeOf(findResp.objectId) = findResp.objectType) =>
        /\ findResp.status = "200"
        /\ itemTransform[findResp.objectId] = findResp.transform

\* C26: whatever uploadId, storyId and spreadIndex a save request carries,
\* the file it creates or modifies lies inside the Stories directory (story
\* save) or the Spreads directory (transform save) of the upload it names.
C26_WritesStayInUploadTree ==
    writtenPath # NoPath =>
        InsideDir(writtenPath,
                  ExtractedSubdir(saveReq.uploadId,
                                  IF saveReq.kind = "story" THEN "Stories"
                                  ELSE "Spreads"))

\* C27: whenever undo is possible, undo followed at once by redo gives back
\* the spreads and the currentSpreadIndex the store had before the undo.
C27_UndoRedoRestores ==
    CanUndo(store) =>
        /\ Redo(Undo(store)).spreads = store.spreads
        /\ Redo(Undo(store)).currentSpreadIndex = store.currentSpreadIndex

\* C28: the history never holds more than maxHistorySize entries; when it is
\* not empty, 0 <= historyIndex <= history.length - 1; and an
\* addHistoryEntry keeps only the entries up to the current index before it
\* appends, so that no redo is possible after it.
C28_HistoryBounded ==
    /\ [](/\ Len(store.history) <= maxHistorySize
          /\ store.history # <<>> =>
                /\ 0 <= store.historyIndex
                /\ store.historyIndex <= Len(store.history) - 1)
    /\ [][store'.history # store.history =>
            LET kept == SubSeq(store.history, 1, store.historyIndex + 1)
                last == store'.history[Len(store'.history)]
            IN  /\ store'.history \in { Append(kept, last),
                                        Tail(Append(kept, last)) }
                /\ ~CanRedo(store')]_vars

C28_Witness ==
    /\ dropped.oldest
    /\ dropped.redo
    /\ Len(store.history) = maxHistorySize

\* C29: the cache never holds more than maxSize spreads, and a set of a new
\* spread id on a full cache evicts exactly the least recently used spread
\* (get and set both count as use) and keeps all others.
C29_LruEviction ==
    /\ [](Cardinality(cache) <= maxSize)
    /\ [][(cop'.op = "set" /\ ~cop'.hit /\ Cardinality(cache) >= maxSize) =>
            /\ recent # <<>>
            /\ cache' = (cache \ { Head(recent) }) \cup { cop'.id }]_vars

=============================================================================
